---- MODULE Spec2Model ----
(***************************************************************************)
(* Navigation and tactical-decision layer of the tank/MOBA game:           *)
(*   - NavMeshSystem and MOBANavSystem (navmesh build / findPath / dispose) *)
(*   - the steering routines of AIController and MOBAHeroAI                 *)
(*   - AIController (patrol / chase / attack), both versions in the tree    *)
(*   - MOBAHeroAI (idle / lane / contest / fight / retreat)                 *)
(*   - MOBAControls (click-to-move, attack target, stuck detection)         *)
(*   - the path followers of MOBAHeroAI and MOBAControls on one path        *)
(*   - the separation pass of the squad controller over its followers      *)
(*   - ControlPoint (capture progress, control, scoring)                   *)
(*   - MinionWave (wave timer, spawning, damage targets) and the game's    *)
(*     wiring of the damage-target lists                                   *)
(*                                                                         *)
(* Units.  Points are <<x, z>> pairs of integers on the ground plane and    *)
(* distances are compared by their squares.  Angles are in milliradians.   *)
(* Move / turret inputs are in thousandths (1000 = full input).  Time is   *)
(* in tenths of a second, hero health in tenths of a hit point.            *)
(***************************************************************************)
EXTENDS Integers, Sequences, FiniteSets, TLC

VARIABLES
  \* ---- NavMeshSystem (nm*) and MOBANavSystem (mb*)
  nmReady, nmNavMesh, nmNavMeshQuery, nmPending,
  mbReady, mbNavMesh, mbNavMeshQuery, mbPending,
  meshCount,      \* number of navmesh objects the backend has created so far
  navOp,          \* the last call on a service and what it returned
  \* ---- steering routines applied to drawn inputs
  stForward, stMyPos, stTargetPos, stWantForward, stSolo, stHero,
  \* ---- AIController: which of the two versions in the tree the build holds
  \*      (aiVersion), the controller of either version (ai: the version with
  \*      dwell, strafing and avoidance; oa: src/src/AIController.js), the
  \*      world update() reads and what the last update() did
  aiVersion, ai, oa, aiWorld, aiObs,
  \* ---- the attack-state tick time since the controller's last fire() call
  \*      (or since its construction)
  aiAttackTime,
  \* ---- the tick time the controller has spent in patrol within 5 units of
  \*      its patrol target since it arrived there
  aiDwell,
  \* ---- MOBAHeroAI: the controller's fields, the world update() reads (and the
  \*      vehicle health doRetreat heals) and what the last update() did
  hero, heroWorld, heroObs,
  \* ---- the tick time since the hero controller's last navigateTo call (or
  \*      since its construction)
  heroSinceNav,
  \* ---- MOBAControls: the controller's fields, the world its handlers read,
  \*      what the last handler did, and the tick time the hero has spent with
  \*      an active goal without leaving its last recorded position
  ctl, ctlWorld, ctlObs, ctlStill, ctlTrack,
  \* ---- the two path followers on one path: the path fields of a MOBAHeroAI
  \*      and of a MOBAControls, the agent's position and the last call
  fwHero, fwCtl, fwPos, fwOp,
  \* ---- the squad's followers in the last tick: who is alive, their positions
  \*      after movement and after the separation pass, and the pairs the pass
  \*      nudged
  sqAlive, sqMoved, sqPos, sqLog,
  \* ---- ControlPoint: the point's fields and what the last update() was given
  cp, cpObs,
  \* ---- MinionWave: the wave manager's fields, the towers still standing,
  \*      what the last update() did, and the update time accumulated since
  \*      construction
  mw, mwTowers, mwObs, mwElapsed

navVars   == <<nmReady, nmNavMesh, nmNavMeshQuery, nmPending,
               mbReady, mbNavMesh, mbNavMeshQuery, mbPending, meshCount, navOp>>
steerVars == <<stForward, stMyPos, stTargetPos, stWantForward, stSolo, stHero>>
soloVars  == <<aiVersion, ai, oa, aiWorld, aiObs, aiAttackTime, aiDwell>>
heroVars  == <<hero, heroWorld, heroObs, heroSinceNav>>
ctlVars   == <<ctl, ctlWorld, ctlObs, ctlStill, ctlTrack>>
followVars == <<fwHero, fwCtl, fwPos, fwOp>>
squadVars == <<sqAlive, sqMoved, sqPos, sqLog>>
pointVars == <<cp, cpObs>>
waveVars  == <<mw, mwTowers, mwObs, mwElapsed>>
vars      == <<navVars, steerVars, soloVars, heroVars, ctlVars, followVars, squadVars, pointVars, waveVars>>
\* What the operations of one component leave alone
notNav    == <<steerVars, soloVars, heroVars, ctlVars, followVars, squadVars, pointVars, waveVars>>
notSteer  == <<navVars, soloVars, heroVars, ctlVars, followVars, squadVars, pointVars, waveVars>>
notSolo   == <<navVars, steerVars, heroVars, ctlVars, followVars, squadVars, pointVars, waveVars>>
notHero   == <<navVars, steerVars, soloVars, ctlVars, followVars, squadVars, pointVars, waveVars>>
notCtl    == <<navVars, steerVars, soloVars, heroVars, followVars, squadVars, pointVars, waveVars>>
notFollow == <<navVars, steerVars, soloVars, heroVars, ctlVars, squadVars, pointVars, waveVars>>
notSquad  == <<navVars, steerVars, soloVars, heroVars, ctlVars, followVars, pointVars, waveVars>>
notPoint  == <<navVars, steerVars, soloVars, heroVars, ctlVars, followVars, squadVars, waveVars>>
notWave   == <<navVars, steerVars, soloVars, heroVars, ctlVars, followVars, squadVars, pointVars>>

-----------------------------------------------------------------------------
\* Bounds of the model
MaxPending == 2     \* builds suspended at `await init()` at the same time, per service
MaxMeshes  == 3     \* navmesh objects created over a run

-----------------------------------------------------------------------------
\* Generic helpers

Abs(n) == IF n < 0 THEN -n ELSE n
Min(a, b) == IF a < b THEN a ELSE b
Max(a, b) == IF a > b THEN a ELSE b
\* Math.max(lo, Math.min(hi, v))
Clamp(v, lo, hi) == Max(lo, Min(hi, v))
\* a * n / d, rounded toward zero
MulDiv(a, n, d) == IF a * n >= 0 THEN (a * n) \div d ELSE -((-(a * n)) \div d)

Pt(x, z) == <<x, z>>
\* Vector3.distanceTo, squared (all points lie on the ground plane y = 0)
DistSq(a, b) == (a[1] - b[1]) * (a[1] - b[1]) + (a[2] - b[2]) * (a[2] - b[2])
\* a.distanceTo(b) < r   and   a.distanceTo(b) > r
Closer(a, b, r)  == DistSq(a, b) < r * r
Farther(a, b, r) == DistSq(a, b) > r * r

\* Math.PI and Math.PI / 2 in milliradians
PiMilli     == 3142
HalfPiMilli == 1571

\* atan(n / d) in milliradians for 0 <= n <= d, d > 0: the quadratic
\* approximation pi/4 * r + 0.273 * r * (1 - r), exact at r = 0 and r = 1 and
\* within 4 milliradians in between.
AtanUnit(n, d) == (785 * n * d + 273 * n * (d - n)) \div (d * d)
AtanPos(y, x) == IF y <= x THEN AtanUnit(y, x) ELSE HalfPiMilli - AtanUnit(x, y)
\* Math.atan2(y, x), in milliradians, in (-pi, pi]; atan2(0, 0) = 0
ATan2(y, x) ==
  IF y = 0 /\ x = 0 THEN 0
  ELSE IF y >= 0 /\ x >= 0 THEN AtanPos(y, x)
  ELSE IF y >= 0 THEN PiMilli - AtanPos(y, -x)
  ELSE IF x >= 0 THEN -AtanPos(-y, x)
  ELSE -(PiMilli - AtanPos(-y, -x))

-----------------------------------------------------------------------------
\* Navigation services

NoMesh == 0          \* navMesh = null / navMeshQuery = null
NullPath == [null |-> TRUE, path |-> <<>>]
SomePath(p) == [null |-> FALSE, path |-> p]

\* Points that path queries are asked about, and the answers of the Detour
\* backend (navMeshQuery.computePath): { success, path }
NavPts == {Pt(0, 0), Pt(0, 20), Pt(30, 20)}
BackendResults(start, goal) ==
  { [success |-> FALSE, path |-> <<>>],
    [success |-> TRUE,  path |-> <<>>],
    [success |-> TRUE,  path |-> <<goal>>],
    [success |-> TRUE,  path |-> <<start, goal>>],
    [success |-> TRUE,  path |-> <<start, Pt(30, 0), goal>>] }

\* NavMeshSystem.findPath
NavMesh_findPath_NoGuard(ready, query, start, goal, backend) ==
  IF ~backend.success \/ Len(backend.path) = 0 THEN NullPath
  ELSE SomePath(backend.path)

NavMesh_findPath(ready, query, start, goal, backend) ==
  IF ~ready \/ query = NoMesh THEN NullPath
  ELSE IF ~backend.success \/ Len(backend.path) = 0 THEN NullPath
  ELSE SomePath(backend.path)

\* MOBANavSystem.findPath: the direct path [end] stands in for "no path"
MOBANav_findPath(ready, query, start, goal, backend) ==
  IF ~ready \/ query = NoMesh THEN SomePath(<<goal>>)
  ELSE IF backend.success /\ Len(backend.path) > 0 THEN SomePath(backend.path)
  ELSE SomePath(<<goal>>)

NoOp == [op |-> "none", sys |-> "none", result |-> NullPath,
         start |-> Pt(0, 0), goal |-> Pt(0, 0)]
OpRec(o, s) == [NoOp EXCEPT !.op = o, !.sys = s]

\* build() up to its suspension at `await init()`
NavMesh_buildStart ==
  /\ nmPending < MaxPending
  /\ nmPending' = nmPending + 1
  /\ navOp' = OpRec("buildStart", "nm")
  /\ UNCHANGED <<nmReady, nmNavMesh, nmNavMeshQuery,
                 mbReady, mbNavMesh, mbNavMeshQuery, mbPending, meshCount, notNav>>

\* NavMeshSystem.build after `await init()`.  outcome: "nomesh" (no geometry),
\* "fail" (result.success false), "ok"
NavMesh_buildFields(outcome, ready, mesh, query, newMesh) ==
  IF outcome = "ok" THEN <<TRUE, newMesh, newMesh>> ELSE <<ready, mesh, query>>

NavMesh_buildResume(outcome) ==
  /\ nmPending > 0
  /\ outcome = "ok" => meshCount < MaxMeshes
  /\ nmPending' = nmPending - 1
  /\ LET f == NavMesh_buildFields(outcome, nmReady, nmNavMesh, nmNavMeshQuery, meshCount + 1)
     IN /\ nmReady' = f[1]
        /\ nmNavMesh' = f[2]
        /\ nmNavMeshQuery' = f[3]
  /\ meshCount' = IF outcome = "ok" THEN meshCount + 1 ELSE meshCount
  /\ navOp' = OpRec(IF outcome = "ok" THEN "buildOk" ELSE "buildFail", "nm")
  /\ UNCHANGED <<mbReady, mbNavMesh, mbNavMeshQuery, mbPending, notNav>>

NavMesh_dispose ==
  /\ nmNavMeshQuery' = NoMesh
  /\ nmNavMesh' = NoMesh
  /\ nmReady' = FALSE
  /\ navOp' = OpRec("dispose", "nm")
  /\ UNCHANGED <<nmPending, mbReady, mbNavMesh, mbNavMeshQuery, mbPending, meshCount, notNav>>

NavMesh_findPathCall(start, goal, backend) ==
  /\ navOp' = [op |-> "findPath", sys |-> "nm", start |-> start, goal |-> goal,
               result |-> NavMesh_findPath(nmReady, nmNavMeshQuery, start, goal, backend)]
  /\ UNCHANGED <<nmReady, nmNavMesh, nmNavMeshQuery, nmPending,
                 mbReady, mbNavMesh, mbNavMeshQuery, mbPending, meshCount, notNav>>

MOBANav_buildStart ==
  /\ mbPending < MaxPending
  /\ mbPending' = mbPending + 1
  /\ navOp' = OpRec("buildStart", "mb")
  /\ UNCHANGED <<mbReady, mbNavMesh, mbNavMeshQuery,
                 nmReady, nmNavMesh, nmNavMeshQuery, nmPending, meshCount, notNav>>

\* MOBANavSystem.build after `await init()`.  outcome: "fail" (result.success
\* false or no result.navMesh), "ok"
MOBANav_buildFields_Partial(outcome, ready, mesh, query, newMesh) ==
  IF outcome = "ok" THEN <<TRUE, newMesh, newMesh>> ELSE <<ready, newMesh, query>>

MOBANav_buildFields(outcome, ready, mesh, query, newMesh) ==
  IF outcome = "ok" THEN <<TRUE, newMesh, newMesh>> ELSE <<ready, mesh, query>>

MOBANav_buildResume(outcome) ==
  /\ mbPending > 0
  /\ outcome = "ok" => meshCount < MaxMeshes
  /\ mbPending' = mbPending - 1
  /\ LET f == MOBANav_buildFields(outcome, mbReady, mbNavMesh, mbNavMeshQuery, meshCount + 1)
     IN /\ mbReady' = f[1]
        /\ mbNavMesh' = f[2]
        /\ mbNavMeshQuery' = f[3]
  /\ meshCount' = IF outcome = "ok" THEN meshCount + 1 ELSE meshCount
  /\ navOp' = OpRec(IF outcome = "ok" THEN "buildOk" ELSE "buildFail", "mb")
  /\ UNCHANGED <<nmReady, nmNavMesh, nmNavMeshQuery, nmPending, notNav>>

MOBANav_dispose ==
  /\ mbNavMeshQuery' = NoMesh
  /\ mbNavMesh' = NoMesh
  /\ mbReady' = FALSE
  /\ navOp' = OpRec("dispose", "mb")
  /\ UNCHANGED <<mbPending, nmReady, nmNavMesh, nmNavMeshQuery, nmPending, meshCount, notNav>>

MOBANav_findPathCall(start, goal, backend) ==
  /\ navOp' = [op |-> "findPath", sys |-> "mb", start |-> start, goal |-> goal,
               result |-> MOBANav_findPath(mbReady, mbNavMeshQuery, start, goal, backend)]
  /\ UNCHANGED <<nmReady, nmNavMesh, nmNavMeshQuery, nmPending,
                 mbReady, mbNavMesh, mbNavMeshQuery, mbPending, meshCount, notNav>>

NavInit ==
  /\ nmReady = FALSE /\ nmNavMesh = NoMesh /\ nmNavMeshQuery = NoMesh /\ nmPending = 0
  /\ mbReady = FALSE /\ mbNavMesh = NoMesh /\ mbNavMeshQuery = NoMesh /\ mbPending = 0
  /\ meshCount = 0
  /\ navOp = NoOp

NavNext ==
  \/ NavMesh_buildStart
  \/ \E o \in {"nomesh", "fail", "ok"} : NavMesh_buildResume(o)
  \/ NavMesh_dispose
  \/ \E s \in NavPts, g \in NavPts : \E b \in BackendResults(s, g) : NavMesh_findPathCall(s, g, b)
  \/ MOBANav_buildStart
  \/ \E o \in {"fail", "ok"} : MOBANav_buildResume(o)
  \/ MOBANav_dispose
  \/ \E s \in NavPts, g \in NavPts : \E b \in BackendResults(s, g) : MOBANav_findPathCall(s, g, b)

-----------------------------------------------------------------------------
\* Steering routines

\* AIController._turnInPlaceThreshold, in milliradians
TurnInPlaceThreshold == 500

\* AIController.angleTo: atan2(cross, dot) of the forward vector and the
\* direction to the target.  Both vectors are normalised in the code; atan2 does
\* not depend on their (positive) lengths, and a zero vector stays zero.
AIController_angleTo_Swapped(forward, myPos, targetPos) ==
  LET tx == targetPos[1] - myPos[1]
      tz == targetPos[2] - myPos[2]
  IN ATan2(forward[2] * tx - forward[1] * tz, forward[1] * tx + forward[2] * tz)

AIController_angleTo(forward, myPos, targetPos) ==
  LET tx == targetPos[1] - myPos[1]
      tz == targetPos[2] - myPos[2]
      cross == forward[1] * tz - forward[2] * tx
      dot   == forward[1] * tx + forward[2] * tz
  IN ATan2(cross, dot)

\* The forward policy of AIController.steerToward
AIController_forwardPolicy_Creep(angle, wantForward) ==
  IF ~wantForward THEN 0
  ELSE IF Abs(angle) < TurnInPlaceThreshold THEN 1000
  ELSE IF Abs(angle) < TurnInPlaceThreshold * 2 THEN 300
  ELSE 100

AIController_forwardPolicy(angle, wantForward) ==
  IF ~wantForward THEN 0
  ELSE IF Abs(angle) < TurnInPlaceThreshold THEN 1000
  ELSE IF Abs(angle) < TurnInPlaceThreshold * 2 THEN 300
  ELSE 0

\* AIController.steerToward: { moveX, moveY, angle }
AIController_steerToward(forward, targetPos, myPos, wantForward) ==
  LET angle == AIController_angleTo(forward, myPos, targetPos)
  IN [moveX |-> Clamp(MulDiv(angle, 5, 2), -1000, 1000),
      moveY |-> AIController_forwardPolicy(angle, wantForward),
      angle |-> angle]

\* The normalisation loops of MOBAHeroAI.steerToward / aimAndFire
RECURSIVE NormalizeAngle(_)
NormalizeAngle(a) ==
  IF a > PiMilli THEN NormalizeAngle(a - PiMilli * 2)
  ELSE IF a < -PiMilli THEN NormalizeAngle(a + PiMilli * 2)
  ELSE a

\* targetAngle - heroAngle, normalised
Hero_angleDiff(forward, myPos, targetPos) ==
  NormalizeAngle(ATan2(targetPos[1] - myPos[1], targetPos[2] - myPos[2])
                 - ATan2(forward[1], forward[2]))

\* The forward policy of MOBAHeroAI.steerToward
MOBAHeroAI_forwardPolicy(angleDiff, moveForward) ==
  IF ~moveForward THEN 0
  ELSE IF Abs(angleDiff) < 500 THEN 1000
  ELSE IF Abs(angleDiff) < 1200 THEN 500
  ELSE 100

\* MOBAHeroAI.steerToward: the arguments of vehicle.setMoveInput
MOBAHeroAI_steerToward(forward, myPos, targetPos, moveForward) ==
  LET angleDiff == Hero_angleDiff(forward, myPos, targetPos)
  IN [moveX |-> Clamp(MulDiv(angleDiff, 5, 2), -1000, 1000),
      moveY |-> MOBAHeroAI_forwardPolicy(angleDiff, moveForward),
      angle |-> angleDiff]

\* Forward vectors and positions the steering routines are applied to
Forwards   == {Pt(0, 1), Pt(1, 0), Pt(0, -1), Pt(-1, 0), Pt(1, 1), Pt(-1, 1), Pt(1, -1), Pt(-1, -1)}
SteerPts   == {Pt(0, 0), Pt(10, 0), Pt(-10, 0), Pt(0, 10), Pt(10, 10), Pt(5, 10), Pt(10, 5),
               Pt(-10, 5), Pt(-5, -10), Pt(3, 10), Pt(0, -10)}
NoSteer    == [moveX |-> 0, moveY |-> 0, angle |-> 0]

SteerInit ==
  /\ stForward = Pt(0, 1) /\ stMyPos = Pt(0, 0) /\ stTargetPos = Pt(0, 0)
  /\ stWantForward = FALSE
  /\ stSolo = NoSteer /\ stHero = NoSteer

\* One call of each steering routine on the same inputs
SteerApply(f, m, t, w) ==
  /\ stForward' = f /\ stMyPos' = m /\ stTargetPos' = t /\ stWantForward' = w
  /\ stSolo' = AIController_steerToward(f, t, m, w)
  /\ stHero' = MOBAHeroAI_steerToward(f, m, t, w)
  /\ UNCHANGED notSteer

SteerNext ==
  \E f \in Forwards, m \in {Pt(0, 0), Pt(5, 10)}, t \in SteerPts, w \in BOOLEAN : SteerApply(f, m, t, w)

-----------------------------------------------------------------------------
\* AIController: the solo vehicle controller, in its two versions
\*   ai : the version with hysteresis, dwell, strafing and obstacle avoidance
\*   oa : src/src/AIController.js

\* Frame times handed to update(), in tenths of a second
Deltas == {10}

\* Saturation of stateTimer, which the controllers write and never read
StateTimerCap == 5

\* Detection / engagement ranges of the constructor
DetectRange  == 60
AttackRange  == 35
OptimalRange == 20
RetreatRange == 10
FireCooldown == 15
FireCooldownVariance == 5
AimThreshold == 180
\* Saturation of fireTimer, which the code only adds to until the tank fires:
\* no effective cooldown exceeds fireCooldown + fireCooldownVariance / 2, so
\* all values from there on behave alike
TimerCap == FireCooldown + FireCooldownVariance
OldAttackRange  == 40
OldRetreatRange == 8
OldAimThreshold == 150

\* pickPatrolTarget: (Math.random() - 0.5) * 160 per coordinate
PatrolPts == {Pt(3, 0), Pt(0, 70)}
\* 1 + Math.random() * 2 seconds
PauseDurations == {10, 20}
\* 2 + Math.random() * 3 seconds
StrafeIntervals == {30}
\* fireCooldown + (Math.random() - 0.5) * fireCooldownVariance
EffectiveCooldowns == {FireCooldown - 2, FireCooldown + 2}
\* checkObstacleAvoidance: 0, +-0.8 (obstacle ahead), +-0.5 (obstacle on a flank)
AvoidSteers == {0, 800}

\* The world as update() reads it: the vehicle stays at the origin facing +Z
SoloMyPos   == Pt(0, 0)
SoloForward == Pt(0, 1)
\* What update() finds in a tick: whether the player vehicle has a mesh, where
\* it is, whether it is alive, the turret's current angle and the steering bias
\* the raycasts of checkObstacleAvoidance come back with
World(mesh, p, alive, turret, avoid) ==
  [playerMesh |-> mesh, playerPos |-> p, playerAlive |-> alive, turretAngle |-> turret,
   avoid |-> avoid]
SoloWorlds ==
  {World(TRUE, p, TRUE, 0, 0) :
     p \in {Pt(0, 5), Pt(0, 22), Pt(30, 0), Pt(0, 38), Pt(0, 55), Pt(65, 0), Pt(0, 80)}}
    \cup {World(TRUE, p, FALSE, 0, 0) : p \in {Pt(0, 22), Pt(0, 55), Pt(0, 80)}}
    \cup {World(TRUE, Pt(30, 0), TRUE, -1500, 0), World(TRUE, Pt(0, 80), TRUE, -1500, 0)}
    \cup {World(TRUE, Pt(0, 80), TRUE, 0, 800), World(TRUE, Pt(0, 55), TRUE, 0, 800),
          World(TRUE, Pt(0, 38), TRUE, 0, -500), World(TRUE, Pt(0, 5), TRUE, 0, 800)}
    \cup {World(FALSE, Pt(0, 0), TRUE, 0, 0)}

NoOut == [moveX |-> 0, moveY |-> 0, turretX |-> 0]

\* State transitions of update() (part_011:91-118); pick is the point
\* pickPatrolTarget draws, dir the strafe direction drawn on entering attack
AIController_transition_NoHysteresis(c, myPos, playerPos, pick, dir) ==
  CASE c.state = "patrol" /\ Closer(myPos, playerPos, DetectRange) ->
         [c EXCEPT !.state = "chase", !.stateTimer = 0]
    [] c.state = "chase" /\ ~Closer(myPos, playerPos, DetectRange) ->
         [c EXCEPT !.state = "patrol", !.stateTimer = 0, !.patrolTarget = pick]
    [] c.state = "chase" /\ Closer(myPos, playerPos, AttackRange) ->
         [c EXCEPT !.state = "attack", !.stateTimer = 0, !.strafeDir = dir]
    [] c.state = "attack" /\ DistSq(myPos, playerPos) * 100 > AttackRange * AttackRange * 196 ->
         [c EXCEPT !.state = "chase", !.stateTimer = 0]
    [] OTHER -> c

AIController_transition(c, myPos, playerPos, pick, dir) ==
  CASE c.state = "patrol" /\ Closer(myPos, playerPos, DetectRange) ->
         [c EXCEPT !.state = "chase", !.stateTimer = 0]
    [] c.state = "chase" /\ DistSq(myPos, playerPos) * 100 > DetectRange * DetectRange * 144 ->
         [c EXCEPT !.state = "patrol", !.stateTimer = 0, !.patrolTarget = pick]
    [] c.state = "chase" /\ Closer(myPos, playerPos, AttackRange) ->
         [c EXCEPT !.state = "attack", !.stateTimer = 0, !.strafeDir = dir]
    [] c.state = "attack" /\ DistSq(myPos, playerPos) * 100 > AttackRange * AttackRange * 196 ->
         [c EXCEPT !.state = "chase", !.stateTimer = 0]
    [] OTHER -> c

\* aimTurretAt (part_011): the turret input
AIController_aimTurretAt(myPos, playerPos, forward, turretAngle) ==
  Clamp((AIController_angleTo(forward, myPos, playerPos) - turretAngle) * 3, -1000, 1000)

\* doPatrol: the new controller fields and the raw inputs
AIController_doPatrol(c, delta, myPos, forward, turretAngle, pause, pick) ==
  IF Closer(myPos, c.patrolTarget, 5)
  THEN LET c1 == IF c.patrolPauseTimer <= 0
                 THEN [c EXCEPT !.patrolPauseDuration = pause, !.patrolPauseTimer = pause]
                 ELSE c
           c2 == [c1 EXCEPT !.patrolPauseTimer = @ - delta]
           c3 == IF c2.patrolPauseTimer <= 0
                 THEN [c2 EXCEPT !.patrolTarget = pick, !.patrolPauseTimer = 0]
                 ELSE c2
           c4 == IF Abs(turretAngle) > 800 THEN [c3 EXCEPT !.patrolScanDir = -@] ELSE c3
       IN [c |-> c4, out |-> [moveX |-> 0, moveY |-> 0, turretX |-> c4.patrolScanDir * 500]]
  ELSE LET steer == AIController_steerToward(forward, c.patrolTarget, myPos, TRUE)
       IN [c |-> c, out |-> [moveX |-> steer.moveX, moveY |-> MulDiv(steer.moveY, 7, 10),
                             turretX |-> 0]]

\* doChase
AIController_doChase(c, delta, myPos, playerPos, forward, turretAngle) ==
  LET steer == AIController_steerToward(forward, playerPos, myPos, TRUE)
  IN [c |-> c, out |-> [moveX |-> steer.moveX, moveY |-> steer.moveY,
                        turretX |-> AIController_aimTurretAt(myPos, playerPos, forward, turretAngle)]]

\* The fire decision of doAttack: fireTimer has already been advanced
AIController_shouldFire_NoAim(aimError, fireTimer, effectiveCooldown) ==
  fireTimer >= effectiveCooldown

AIController_shouldFire(aimError, fireTimer, effectiveCooldown) ==
  Abs(aimError) < AimThreshold /\ fireTimer >= effectiveCooldown

\* doAttack: the new controller fields, the raw inputs and whether fire() was called
AIController_doAttack(c, delta, myPos, playerPos, forward, turretAngle, interval, cooldown) ==
  LET angleToPlayer == AIController_angleTo(forward, myPos, playerPos)
      t1 == c.strafeTimer + delta
      c1 == IF t1 >= c.strafeSwitchInterval
            THEN [c EXCEPT !.strafeTimer = 0, !.strafeDir = -@, !.strafeSwitchInterval = interval]
            ELSE [c EXCEPT !.strafeTimer = t1]
      steerF == AIController_steerToward(forward, playerPos, myPos, TRUE)
      steerN == AIController_steerToward(forward, playerPos, myPos, FALSE)
      move ==
        IF Closer(myPos, playerPos, RetreatRange) THEN <<steerN.moveX, -600>>
        ELSE IF Farther(myPos, playerPos, OptimalRange + 5)
             THEN <<steerF.moveX, MulDiv(steerF.moveY, 6, 10)>>
        ELSE IF Abs(angleToPlayer) < 800
             THEN <<Clamp(steerN.moveX + c1.strafeDir * 600, -1000, 1000), 200>>
        ELSE <<steerN.moveX, 0>>
      fireTimer == Min(c1.fireTimer + delta, TimerCap)
      aimError  == angleToPlayer - turretAngle
      fire      == AIController_shouldFire(aimError, fireTimer, cooldown)
  IN [c |-> [c1 EXCEPT !.fireTimer = IF fire THEN 0 ELSE fireTimer],
      out |-> [moveX |-> move[1], moveY |-> move[2],
               turretX |-> AIController_aimTurretAt(myPos, playerPos, forward, turretAngle)],
      fired |-> fire, aimError |-> aimError]

\* lerpValue(current, target, t) with t = num / 10
AIController_lerpValue(current, target, num) ==
  current + MulDiv(target - current, Min(num, 10), 10)

\* The raw turn after the obstacle-avoidance bias (part_011:155-158)
AIController_applyAvoid_AnyThrottle(avoid, rawMoveX, rawMoveY) ==
  IF Abs(avoid) > 10 THEN Clamp(rawMoveX + avoid, -1000, 1000) ELSE rawMoveX

AIController_applyAvoid(avoid, rawMoveX, rawMoveY) ==
  IF Abs(avoid) > 10 /\ rawMoveY > 0 THEN Clamp(rawMoveX + avoid, -1000, 1000) ELSE rawMoveX

\* The whole of update() after its two guards
AIController_step(c, delta, myPos, playerPos, forward, turretAngle, pick, dir, pause, interval, cooldown, avoid) ==
  LET c0 == [c EXCEPT !.stateTimer = Min(@ + delta, StateTimerCap)]
      c1 == AIController_transition(c0, myPos, playerPos, pick, dir)
      r  == CASE c1.state = "patrol" ->
                   AIController_doPatrol(c1, delta, myPos, forward, turretAngle, pause, pick)
                     @@ [fired |-> FALSE, aimError |-> 0]
              [] c1.state = "chase" ->
                   AIController_doChase(c1, delta, myPos, playerPos, forward, turretAngle)
                     @@ [fired |-> FALSE, aimError |-> 0]
              [] OTHER ->
                   AIController_doAttack(c1, delta, myPos, playerPos, forward, turretAngle,
                                         interval, cooldown)
      checkTimer == r.c.obstacleCheckTimer + delta
      \* _obstacleCheckInterval = 0.25 s
      c2 == IF 2 * checkTimer >= 5
            THEN [r.c EXCEPT !.obstacleCheckTimer = 0, !.obstacleAvoidSteer = avoid]
            ELSE [r.c EXCEPT !.obstacleCheckTimer = checkTimer]
      rawX == AIController_applyAvoid(c2.obstacleAvoidSteer, r.out.moveX, r.out.moveY)
      \* _smoothMoveX, _smoothMoveY, _smoothTurretX: every frame time of Deltas
      \* makes the lerp factor reach 1, so the smoothed inputs are the lerp targets
      \* whatever the previous tick left in them
      out == [moveX   |-> AIController_lerpValue(r.out.moveX, rawX, 4 * delta),
              moveY   |-> AIController_lerpValue(r.out.moveY, r.out.moveY, 4 * delta),
              turretX |-> AIController_lerpValue(r.out.turretX, r.out.turretX, 8 * delta)]
  IN [c |-> c2, raw |-> r.out, rawX |-> rawX, out |-> out, fired |-> r.fired,
      aimError |-> r.aimError]

\* ---- src/src/AIController.js

OldAI_transition_Chained(c, myPos, playerPos, pick) ==
  CASE c.state = "patrol" /\ Closer(myPos, playerPos, OldAttackRange) -> [c EXCEPT !.state = "attack"]
    [] c.state = "patrol" /\ Closer(myPos, playerPos, DetectRange) -> [c EXCEPT !.state = "chase"]
    [] c.state = "chase" /\ DistSq(myPos, playerPos) * 100 > DetectRange * DetectRange * 144 ->
         [c EXCEPT !.state = "patrol", !.patrolTarget = pick]
    [] c.state = "chase" /\ Closer(myPos, playerPos, OldAttackRange) -> [c EXCEPT !.state = "attack"]
    [] c.state = "attack" /\ DistSq(myPos, playerPos) * 100 > OldAttackRange * OldAttackRange * 169 ->
         [c EXCEPT !.state = "chase"]
    [] OTHER -> c

OldAI_transition(c, myPos, playerPos, pick) ==
  CASE c.state = "patrol" /\ Closer(myPos, playerPos, DetectRange) -> [c EXCEPT !.state = "chase"]
    [] c.state = "chase" /\ DistSq(myPos, playerPos) * 100 > DetectRange * DetectRange * 144 ->
         [c EXCEPT !.state = "patrol", !.patrolTarget = pick]
    [] c.state = "chase" /\ Closer(myPos, playerPos, OldAttackRange) -> [c EXCEPT !.state = "attack"]
    [] c.state = "attack" /\ DistSq(myPos, playerPos) * 100 > OldAttackRange * OldAttackRange * 169 ->
         [c EXCEPT !.state = "chase"]
    [] OTHER -> c

\* steerToward (AIController.js): the arguments of vehicle.setMoveInput
OldAI_steerToward(forward, targetPos, myPos, moveForward) ==
  LET angle == AIController_angleTo(forward, myPos, targetPos)
  IN [x |-> Clamp(angle * 2, -1000, 1000), y |-> IF moveForward THEN 1000 ELSE 0, angle |-> angle]

OldAI_step(c, delta, myPos, playerPos, forward, turretAngle, pick) ==
  LET c1 == OldAI_transition(c, myPos, playerPos, pick)
      aimError == AIController_angleTo(forward, myPos, playerPos) - turretAngle
      aim == Clamp(aimError * 3, -1000, 1000)
  IN CASE c1.state = "patrol" ->
            LET c2 == IF Closer(myPos, c1.patrolTarget, 5) THEN [c1 EXCEPT !.patrolTarget = pick]
                      ELSE c1
                s == OldAI_steerToward(forward, c2.patrolTarget, myPos, TRUE)
            IN [c |-> c2, out |-> [moveX |-> s.x, moveY |-> s.y, turretX |-> 0],
                fired |-> FALSE, aimError |-> aimError]
       [] c1.state = "chase" ->
            LET s == OldAI_steerToward(forward, playerPos, myPos, TRUE)
            IN [c |-> c1, out |-> [moveX |-> s.x, moveY |-> s.y, turretX |-> aim],
                fired |-> FALSE, aimError |-> aimError]
       [] OTHER ->
            LET s == OldAI_steerToward(forward, playerPos, myPos, FALSE)
                y == IF Closer(myPos, playerPos, OldRetreatRange) THEN -500
                     ELSE IF Abs(s.angle) < 500 THEN 300 ELSE s.y
                fireTimer == Min(c1.fireTimer + delta, TimerCap)
                fire == Abs(aimError) < OldAimThreshold /\ fireTimer >= FireCooldown
            IN [c |-> [c1 EXCEPT !.fireTimer = IF fire THEN 0 ELSE fireTimer],
                out |-> [moveX |-> s.x, moveY |-> y, turretX |-> aim],
                fired |-> fire, aimError |-> aimError]

\* ---- the constructors and one update() of both versions on the same world

AIController_new(pick) ==
  [state |-> "patrol", stateTimer |-> 0, patrolTarget |-> pick,
   patrolPauseTimer |-> 0, patrolPauseDuration |-> 0, patrolScanDir |-> 1,
   fireTimer |-> 0, strafeDir |-> 1, strafeTimer |-> 0, strafeSwitchInterval |-> 30,
   obstacleAvoidSteer |-> 0, obstacleCheckTimer |-> 0]

OldAI_new(pick) ==
  [state |-> "patrol", patrolTarget |-> pick, fireTimer |-> 0]

\* What the last update() did: whether it got past its guards, the state it
\* started from, the raw turn after the avoidance bias, the inputs handed to the
\* vehicle and whether fire() was called
NoObs == [ran |-> FALSE, returned |-> FALSE, prev |-> "patrol", raw |-> NoOut, rawX |-> 0,
          out |-> NoOut, fired |-> FALSE, aimError |-> 0, attackTime |-> 0,
          dwell |-> 0, dwellOver |-> FALSE]

\* Saturation of the dwell time: past the longest pause plus one frame
DwellCap == 40

\* The attack-state tick time since the last fire() call, after a tick of frame
\* time delta that ended in state `state`; it saturates like fireTimer
AttackTimeAfter(state, delta) ==
  IF state = "attack" THEN Min(aiAttackTime + delta, TimerCap) ELSE aiAttackTime

\* A build holds one of the two versions of the file; only that controller is
\* constructed and updated
AIVersions == {"part_011", "AIController.js"}

\* The dwell time after a tick of frame time delta in which the transitions
\* left the controller in state next (pick is the patrol target drawn on
\* leaving chase): the tick adds to it when doPatrol finds the vehicle within 5
\* units of the patrol target, and any other tick ends the dwell
DwellAfter(c, next, pick, delta) ==
  LET target == IF c.state = "chase" /\ next = "patrol" THEN pick ELSE c.patrolTarget
  IN IF next = "patrol" /\ Closer(SoloMyPos, target, 5)
     THEN Min(aiDwell + delta, DwellCap) ELSE 0

\* Before a controller is constructed
SoloInit ==
  /\ aiVersion = "none"
  /\ ai = AIController_new(Pt(0, 0)) /\ oa = OldAI_new(Pt(0, 0))
  /\ aiWorld = World(TRUE, Pt(0, 80), TRUE, 0, 0)
  /\ aiObs = NoObs
  /\ aiAttackTime = 0
  /\ aiDwell = 0

\* new AIController(vehicle, playerVehicle): the constructor ends with
\* pickPatrolTarget()
AI_construct(version, pick) ==
  /\ aiVersion = "none"
  /\ aiVersion' = version
  /\ ai' = AIController_new(pick) /\ oa' = OldAI_new(pick)
  /\ UNCHANGED <<aiWorld, aiObs, aiAttackTime, aiDwell, notSolo>>

\* Between two ticks the physics and combat layers move the player, kill or
\* revive it, turn the turret and change what the obstacle raycasts hit
Solo_worldStep(w) ==
  /\ w # aiWorld
  /\ aiWorld' = w
  /\ aiObs' = NoObs
  /\ UNCHANGED <<aiVersion, ai, oa, aiAttackTime, aiDwell, notSolo>>

\* update(delta) of part_011.  The Math.random() draws are taken only on the
\* paths of update() that consume them.
AI_update(delta) ==
  /\ aiVersion = "part_011"
  /\ aiWorld.playerMesh
  /\ \E next \in {AIController_transition(ai, SoloMyPos, aiWorld.playerPos, ai.patrolTarget, 1).state} :
     \E pick \in (IF next = "patrol" THEN PatrolPts ELSE {ai.patrolTarget}),
        dir \in (IF next = "attack" /\ ai.state = "chase" THEN {1, -1} ELSE {1}),
        pause \in (IF next = "patrol" THEN PauseDurations ELSE {10}),
        interval \in (IF next = "attack" THEN StrafeIntervals ELSE {20}),
        cooldown \in (IF next = "attack" THEN EffectiveCooldowns ELSE {FireCooldown}) :
     \E r \in {AIController_step(ai, delta, SoloMyPos, aiWorld.playerPos, SoloForward,
                                  aiWorld.turretAngle, pick, dir, pause, interval, cooldown,
                                  aiWorld.avoid)} :
          /\ ai' = r.c
          /\ aiObs' = [ran |-> TRUE, returned |-> FALSE, prev |-> ai.state, raw |-> r.raw,
                       rawX |-> r.rawX, out |-> r.out, fired |-> r.fired, aimError |-> r.aimError,
                       attackTime |-> AttackTimeAfter(r.c.state, delta),
                       dwell |-> DwellAfter(ai, next, pick, delta),
                       dwellOver |-> DwellAfter(ai, next, pick, delta) > 0
                                       /\ r.c.patrolPauseTimer = 0]
          /\ aiAttackTime' = IF r.fired THEN 0 ELSE AttackTimeAfter(r.c.state, delta)
          /\ aiDwell' = IF r.c.patrolPauseTimer = 0 THEN 0 ELSE DwellAfter(ai, next, pick, delta)
          /\ UNCHANGED <<aiVersion, oa, aiWorld, notSolo>>

\* update(delta) of src/src/AIController.js
OldAI_update(delta) ==
  /\ aiVersion = "AIController.js"
  /\ aiWorld.playerMesh
  /\ \E pick \in (IF oa.state = "attack" THEN {oa.patrolTarget} ELSE PatrolPts) :
     \E o \in {OldAI_step(oa, delta, SoloMyPos, aiWorld.playerPos, SoloForward,
                           aiWorld.turretAngle, pick)} :
          /\ oa' = o.c
          /\ aiObs' = [ran |-> TRUE, returned |-> FALSE, prev |-> oa.state, raw |-> o.out,
                       rawX |-> o.out.moveX, out |-> o.out, fired |-> o.fired,
                       aimError |-> o.aimError,
                       attackTime |-> AttackTimeAfter(o.c.state, delta),
                       dwell |-> 0, dwellOver |-> FALSE]
          /\ aiAttackTime' = IF o.fired THEN 0 ELSE AttackTimeAfter(o.c.state, delta)
          /\ UNCHANGED <<aiVersion, ai, aiWorld, aiDwell, notSolo>>

\* update(delta) while the player vehicle has no mesh: both versions return at
\* their second guard
AI_updateNoPlayer ==
  /\ ~aiWorld.playerMesh
  /\ aiObs' = [NoObs EXCEPT !.returned = TRUE]
  /\ UNCHANGED <<aiVersion, ai, oa, aiWorld, aiAttackTime, aiDwell, notSolo>>

SoloNext ==
  \/ \E version \in AIVersions, pick \in PatrolPts : AI_construct(version, pick)
  \/ \E w \in SoloWorlds : Solo_worldStep(w)
  \/ \E delta \in Deltas : AI_update(delta)
  \/ \E delta \in Deltas : OldAI_update(delta)
  \/ AI_updateNoPlayer

\* The patrol dwell at a finer frame time: the version with dwell only, and
\* the player beyond and inside the detection range
DwellDeltas == {5}
DwellWorlds == {World(TRUE, Pt(0, 80), TRUE, 0, 0), World(TRUE, Pt(0, 55), TRUE, 0, 0)}
DwellNext ==
  \/ \E pick \in PatrolPts : AI_construct("part_011", pick)
  \/ \E w \in DwellWorlds : Solo_worldStep(w)
  \/ \E delta \in DwellDeltas : AI_update(delta)

-----------------------------------------------------------------------------
\* MOBAHeroAI: the enemy hero (idle / lane / contest / fight / retreat)

\* Frame times handed to update(), in tenths of a second
HeroDeltas == {5}

\* Constructor constants; health is in tenths of a hit point
HeroDetectRange      == 40
HeroAttackRange      == 20
RetreatHealthPercent == 25
DecisionInterval     == 10
AbilityInterval      == 20
HeroMaxHealth        == 500

\* mobaMap.laneWaypoints.mid reversed (setLane), mobaMap.redBasePos and the
\* control point
LanePath == <<Pt(0, 115), Pt(0, 80), Pt(0, 50), Pt(0, 20), Pt(0, 0),
              Pt(0, -20), Pt(0, -50), Pt(0, -80), Pt(0, -115)>>
RedBasePos == Pt(0, 130)
CenterPos  == Pt(0, 0)

\* What navSystem.findPath is answered by the Detour backend: no path, or a
\* path from the start around a corner to the goal
PathKinds == {"fail", "via"}
ViaPt == Pt(30, 60)
BackendPath(kind, start, goal) ==
  IF kind = "via" THEN [success |-> TRUE, path |-> <<start, ViaPt, goal>>]
  ELSE [success |-> FALSE, path |-> <<>>]

\* What one update() has done so far: the controller fields, the vehicle's
\* health, the setMoveInput calls (their number and the last arguments), the
\* setTurretInput argument, the fire() calls and whether navigateTo and
\* followNavPath were called
HeroCtx(h, health) ==
  [h |-> h, health |-> health, moveWrites |-> 0, move |-> <<0, 0>>,
   turretSet |-> FALSE, turret |-> 0, fires |-> 0, requery |-> FALSE, followed |-> FALSE]

Hero_setMoveInput(x, mx, my) ==
  [x EXCEPT !.moveWrites = @ + 1, !.move = <<mx, my>>]

\* steerToward
MOBAHeroAI_steer(x, w, targetPos, moveForward) ==
  LET s == MOBAHeroAI_steerToward(w.forward, w.myPos, targetPos, moveForward)
  IN Hero_setMoveInput(x, s.moveX, s.moveY)

\* aimAndFire
MOBAHeroAI_aimAndFire(x, w, targetPos) ==
  LET angleDiff == Hero_angleDiff(w.forward, w.myPos, targetPos)
  IN [x EXCEPT !.turretSet = TRUE, !.turret = Clamp(angleDiff * 3, -1000, 1000),
               !.fires = IF Abs(angleDiff) < 300 THEN @ + 1 ELSE @]

\* setLane(currentLane)
MOBAHeroAI_setLane(h) == [h EXCEPT !.waypointIndex = 0, !.state = "lane"]

\* makeDecision
MOBAHeroAI_makeDecision_FightFirst(h, w, health) ==
  IF w.playerAlive /\ Closer(w.myPos, w.playerPos, HeroDetectRange)
  THEN IF h.state # "fight"
       THEN [h EXCEPT !.state = "fight", !.stateTimer = 0, !.attackTarget = "player"]
       ELSE h
  ELSE IF health * 100 < RetreatHealthPercent * HeroMaxHealth
  THEN IF h.state # "retreat" THEN [h EXCEPT !.state = "retreat", !.stateTimer = 0] ELSE h
  ELSE IF Closer(w.myPos, CenterPos, 60) /\ health * 2 > HeroMaxHealth
  THEN IF h.state # "contest" THEN [h EXCEPT !.state = "contest", !.stateTimer = 0] ELSE h
  ELSE IF h.state # "lane" THEN MOBAHeroAI_setLane(h) ELSE h

MOBAHeroAI_makeDecision(h, w, health) ==
  IF health * 100 < RetreatHealthPercent * HeroMaxHealth
  THEN IF h.state # "retreat" THEN [h EXCEPT !.state = "retreat", !.stateTimer = 0] ELSE h
  ELSE IF w.playerAlive /\ Closer(w.myPos, w.playerPos, HeroDetectRange)
  THEN IF h.state # "fight"
       THEN [h EXCEPT !.state = "fight", !.stateTimer = 0, !.attackTarget = "player"]
       ELSE h
  ELSE IF Closer(w.myPos, CenterPos, 60) /\ health * 2 > HeroMaxHealth
  THEN IF h.state # "contest" THEN [h EXCEPT !.state = "contest", !.stateTimer = 0] ELSE h
  ELSE IF h.state # "lane" THEN MOBAHeroAI_setLane(h) ELSE h

\* The waypoint index navigateTo starts a computed path with (0-based as in the
\* code), and one that skips every leading waypoint within 5 units
MOBAHeroAI_startIndex_SkipAll(path, myPos) ==
  LET far == {i \in 0..(Len(path) - 1) : ~Closer(myPos, path[i + 1], 5)}
  IN IF far = {} THEN Len(path) - 1 ELSE CHOOSE i \in far : \A j \in far : i <= j

MOBAHeroAI_startIndex(path, myPos) ==
  IF Len(path) > 1 /\ Closer(myPos, path[1], 5) THEN 1 ELSE 0

\* navigateTo; kind is the backend's answer when the nav system is asked
MOBAHeroAI_navigateTo(x, w, targetPos, kind) ==
  IF w.navReady
  THEN LET path == MOBANav_findPath(TRUE, 1, w.myPos, targetPos,
                                    BackendPath(kind, w.myPos, targetPos)).path
       IN [x EXCEPT !.requery = TRUE, !.h.navPath = path,
                    !.h.navPathIndex = MOBAHeroAI_startIndex(path, w.myPos)]
  ELSE [x EXCEPT !.requery = TRUE, !.h.navPath = <<targetPos>>, !.h.navPathIndex = 0]

\* The waypoint index after followNavPath's arrival test (indices are 0-based
\* as in the code; navPath[i + 1] is the code's navPath[i])
MOBAHeroAI_advance_SkipAhead(navPath, navPathIndex, myPos) ==
  IF Closer(myPos, navPath[Len(navPath)], 5) THEN Len(navPath) - 1
  ELSE IF Closer(myPos, navPath[navPathIndex + 1], 5) /\ navPathIndex < Len(navPath) - 1
  THEN navPathIndex + 1
  ELSE navPathIndex

MOBAHeroAI_advance(navPath, navPathIndex, myPos) ==
  IF Closer(myPos, navPath[navPathIndex + 1], 5) /\ navPathIndex < Len(navPath) - 1
  THEN navPathIndex + 1
  ELSE navPathIndex

\* followNavPath
MOBAHeroAI_followNavPath(x, w, moveForward) ==
  IF x.h.navPathIndex >= Len(x.h.navPath)
  THEN Hero_setMoveInput([x EXCEPT !.followed = TRUE], 0, 0)
  ELSE LET i  == MOBAHeroAI_advance(x.h.navPath, x.h.navPathIndex, w.myPos)
           x1 == [x EXCEPT !.followed = TRUE, !.h.navPathIndex = i]
       IN MOBAHeroAI_steer(x1, w, x.h.navPath[i + 1], moveForward)

\* The re-query step shared by doLane, doContest, doFight and doRetreat:
\* navPathTimer -= delta, then navigateTo when it ran out or the path is empty
MOBAHeroAI_requery(x, w, delta, targetPos, kind, period) ==
  LET x1 == [x EXCEPT !.h.navPathTimer = @ - delta]
  IN IF x1.h.navPathTimer <= 0 \/ Len(x1.h.navPath) = 0
     THEN [MOBAHeroAI_navigateTo(x1, w, targetPos, kind) EXCEPT !.h.navPathTimer = period]
     ELSE x1

\* checkForNearbyEnemies: aim and fire at the nearest living damage target
\* inside attackRange (the first of equally near ones)
MOBAHeroAI_checkForNearbyEnemies(x, w) ==
  LET cand == {i \in DOMAIN w.targets :
                 w.targets[i].alive /\ Closer(w.myPos, w.targets[i].pos, HeroAttackRange)}
      d(i) == DistSq(w.myPos, w.targets[i].pos)
  IN IF cand = {} THEN x
     ELSE LET nearest == CHOOSE i \in cand :
                           \A j \in cand : d(i) < d(j) \/ (d(i) = d(j) /\ i <= j)
          IN MOBAHeroAI_aimAndFire(x, w, w.targets[nearest].pos)

\* doLane (lanePath is never empty)
MOBAHeroAI_doLane(x, w, delta, kind) ==
  LET wi == IF Closer(w.myPos, LanePath[Min(x.h.waypointIndex, Len(LanePath) - 1) + 1], 5)
               /\ x.h.waypointIndex < Len(LanePath) - 1
            THEN x.h.waypointIndex + 1 ELSE x.h.waypointIndex
      wp == LanePath[Min(wi, Len(LanePath) - 1) + 1]
      x1 == [x EXCEPT !.h.waypointIndex = wi]
      x2 == MOBAHeroAI_requery(x1, w, delta, wp, kind, 20)
  IN MOBAHeroAI_checkForNearbyEnemies(MOBAHeroAI_followNavPath(x2, w, TRUE), w)

\* doContest
MOBAHeroAI_doContest(x, w, delta, kind) ==
  IF Farther(w.myPos, CenterPos, 10)
  THEN MOBAHeroAI_followNavPath(MOBAHeroAI_requery(x, w, delta, CenterPos, kind, 20), w, TRUE)
  ELSE MOBAHeroAI_checkForNearbyEnemies(Hero_setMoveInput(x, 0, 0), w)

\* doFight; the attack target is the player vehicle
MOBAHeroAI_doFight(x, w, delta, kind) ==
  IF x.h.attackTarget = "none" \/ ~w.playerAlive
  THEN [x EXCEPT !.h = MOBAHeroAI_setLane(@)]
  ELSE IF Farther(w.myPos, w.playerPos, HeroAttackRange)
  THEN MOBAHeroAI_followNavPath(MOBAHeroAI_requery(x, w, delta, w.playerPos, kind, 10), w, TRUE)
  ELSE IF DistSq(w.myPos, w.playerPos) * 100 > HeroAttackRange * HeroAttackRange * 36
  THEN MOBAHeroAI_aimAndFire(MOBAHeroAI_steer(x, w, w.playerPos, FALSE), w, w.playerPos)
  ELSE MOBAHeroAI_aimAndFire(
         Hero_setMoveInput(MOBAHeroAI_steer(x, w, w.playerPos, FALSE), 0, -300), w, w.playerPos)

\* doRetreat
MOBAHeroAI_doRetreat(x, w, delta, kind) ==
  IF Closer(w.myPos, RedBasePos, 20)
  THEN LET x1 == [Hero_setMoveInput(x, 0, 0) EXCEPT !.h.navPath = <<>>]
           x2 == IF x1.health < HeroMaxHealth
                 THEN [x1 EXCEPT !.health = Min(HeroMaxHealth, @ + 5 * delta)]
                 ELSE x1
       IN IF x2.health * 10 > HeroMaxHealth * 7
          THEN [x2 EXCEPT !.h = MOBAHeroAI_setLane(@)]
          ELSE x2
  ELSE MOBAHeroAI_followNavPath(MOBAHeroAI_requery(x, w, delta, RedBasePos, kind, 20), w, TRUE)

\* tryUseAbilities: the state and health test in front of the R cast
MOBAHeroAI_wantsUltimate_AnyHealth(state, health) == state = "fight"

MOBAHeroAI_wantsUltimate(state, health) ==
  state = "fight" /\ health * 10 > HeroMaxHealth * 4 /\ health * 10 < HeroMaxHealth * 8

\* tryUseAbilities: the ability levelled up and the abilities cast
MOBAHeroAI_tryUseAbilities(state, w, health) ==
  LET a == w.abil
      Near(r) == w.playerAlive /\ Closer(w.myPos, w.playerPos, r)
  IN [levelUp |->
        IF a.skillPoints = 0 THEN "none"
        ELSE IF a.level >= 6 /\ "r" \in a.open THEN "r"
        ELSE IF "q" \in a.open THEN "q"
        ELSE IF "w" \in a.open THEN "w"
        ELSE IF "e" \in a.open THEN "e"
        ELSE "none",
      casts |->
        {k \in {"q", "w", "e", "r"} :
           \/ k = "q" /\ Near(15)
           \/ k = "w" /\ state = "fight" /\ Near(20) /\ Farther(w.myPos, w.playerPos, 10)
           \/ k = "e" /\ state \in {"lane", "contest"}
           \/ k = "r" /\ MOBAHeroAI_wantsUltimate(state, health)
                      /\ (a.heroType = "titan" \/ w.playerAlive)}]

\* update(): whether this tick re-evaluates the state (decisionTimer has
\* already been advanced)
MOBAHeroAI_decisionDue_EveryTick(decisionTimer) == TRUE

MOBAHeroAI_decisionDue(decisionTimer) == decisionTimer >= DecisionInterval

\* update(delta) after its guards
MOBAHeroAI_update(h, w, delta, kind) ==
  LET h0 == [h EXCEPT !.stateTimer = Min(@ + delta, StateTimerCap),
                      !.decisionTimer = @ + delta, !.abilityTimer = @ + delta]
      decide == MOBAHeroAI_decisionDue(h0.decisionTimer)
      h1 == IF decide
            THEN MOBAHeroAI_makeDecision([h0 EXCEPT !.decisionTimer = 0], w, w.health)
            ELSE h0
      x  == HeroCtx(h1, w.health)
      x1 == CASE h1.state = "idle"    -> Hero_setMoveInput(x, 0, 0)
              [] h1.state = "lane"    -> MOBAHeroAI_doLane(x, w, delta, kind)
              [] h1.state = "contest" -> MOBAHeroAI_doContest(x, w, delta, kind)
              [] h1.state = "fight"   -> MOBAHeroAI_doFight(x, w, delta, kind)
              [] OTHER                -> MOBAHeroAI_doRetreat(x, w, delta, kind)
      cast == x1.h.abilityTimer >= AbilityInterval
  IN [x |-> IF cast THEN [x1 EXCEPT !.h.abilityTimer = 0] ELSE x1,
      decided |-> decide,
      decision |-> IF decide THEN [state |-> h1.state, attackTarget |-> h1.attackTarget]
                   ELSE [state |-> "none", attackTarget |-> "none"],
      abil |-> IF cast THEN MOBAHeroAI_tryUseAbilities(x1.h.state, w, w.health)
               ELSE [levelUp |-> "none", casts |-> {}]]

\* The constructor, which ends with setLane('mid')
MOBAHeroAI_new ==
  [state |-> "lane", stateTimer |-> 0, waypointIndex |-> 0,
   navPath |-> <<>>, navPathIndex |-> 0, navPathTimer |-> 0,
   attackTarget |-> "none", decisionTimer |-> 0, abilityTimer |-> 0]

\* What update() finds in a tick: the hero vehicle (mesh and body, position,
\* forward vector, health), the player vehicle, whether a ready nav system has
\* been attached, the vehicle's damage targets and its ability system
Abil(points, level, open) ==
  [skillPoints |-> points, level |-> level, open |-> open, heroType |-> "tank"]
NoAbil == Abil(0, 1, {"q", "w", "e", "r"})
HeroWorld(myPos, health, playerAlive, playerPos, navReady, targets, abil) ==
  [mesh |-> TRUE, myPos |-> myPos, forward |-> Pt(0, -1), health |-> health,
   playerAlive |-> playerAlive, playerPos |-> playerPos, navReady |-> navReady,
   targets |-> targets, abil |-> abil]
FarPlayer == Pt(0, -100)
HeroWorlds ==
  { HeroWorld(Pt(0, 113), 500, TRUE, FarPlayer, FALSE, <<>>, NoAbil),
    HeroWorld(Pt(0, 113), 500, TRUE, FarPlayer, TRUE, <<>>, NoAbil),
    HeroWorld(Pt(30, 58), 500, TRUE, FarPlayer, TRUE, <<>>, NoAbil),
    HeroWorld(Pt(0, 40), 500, TRUE, Pt(0, 72), TRUE, <<>>, NoAbil),
    HeroWorld(Pt(0, 40), 500, TRUE, Pt(0, 25), FALSE,
              <<[pos |-> Pt(0, 25), alive |-> TRUE]>>, Abil(1, 6, {"r", "q"})),
    HeroWorld(Pt(0, 40), 500, TRUE, Pt(0, 32), FALSE, <<>>, NoAbil),
    HeroWorld(Pt(0, 40), 500, FALSE, Pt(0, 25), FALSE,
              <<[pos |-> Pt(0, 25), alive |-> FALSE]>>, NoAbil),
    HeroWorld(Pt(0, 40), 500, TRUE, FarPlayer, TRUE, <<>>, Abil(1, 3, {"w", "e"})),
    HeroWorld(Pt(0, 8), 500, TRUE, FarPlayer, FALSE,
              <<[pos |-> Pt(12, 8), alive |-> FALSE], [pos |-> Pt(0, -4), alive |-> TRUE]>>,
              NoAbil),
    HeroWorld(Pt(0, 40), 325, TRUE, Pt(0, 25), FALSE, <<>>, NoAbil),
    HeroWorld(Pt(0, 40), 150, TRUE, Pt(0, 25), FALSE, <<>>, NoAbil),
    HeroWorld(Pt(0, 40), 100, TRUE, Pt(0, 25), TRUE, <<>>, NoAbil),
    HeroWorld(Pt(0, 113), 100, TRUE, FarPlayer, TRUE, <<>>, NoAbil),
    HeroWorld(Pt(0, 113), 0, TRUE, FarPlayer, FALSE, <<>>, NoAbil),
    [HeroWorld(Pt(0, 113), 500, TRUE, FarPlayer, FALSE, <<>>, NoAbil) EXCEPT !.mesh = FALSE] }

\* Saturation of the time since the last navigateTo call
SinceNavCap == 30

NoHeroObs ==
  [ran |-> FALSE, returned |-> FALSE, prev |-> "lane", decided |-> FALSE,
   decision |-> [state |-> "none", attackTarget |-> "none"], moveWrites |-> 0,
   move |-> <<0, 0>>, turretSet |-> FALSE, turret |-> 0, fires |-> 0, requery |-> FALSE,
   followed |-> FALSE, levelUp |-> "none", casts |-> {}]

HeroInit ==
  /\ hero = MOBAHeroAI_new
  /\ heroWorld = HeroWorld(Pt(0, 113), 500, TRUE, FarPlayer, FALSE, <<>>, NoAbil)
  /\ heroObs = NoHeroObs
  /\ heroSinceNav = 0

\* Between two ticks physics and combat move, damage, kill and respawn the
\* vehicles, and a nav system may be attached or disposed
Hero_worldStep(w) ==
  /\ w # heroWorld
  /\ heroWorld' = w
  /\ heroObs' = NoHeroObs
  /\ UNCHANGED <<hero, heroSinceNav, notHero>>

\* update(delta) on a living vehicle: the controller, the healed vehicle and
\* what the call did
Hero_tick(delta) ==
  /\ heroWorld.mesh /\ heroWorld.health > 0
  /\ \E kind \in (IF heroWorld.navReady THEN PathKinds ELSE {"fail"}) :
     \E r \in {MOBAHeroAI_update(hero, heroWorld, delta, kind)} :
       /\ hero' = r.x.h
       /\ heroWorld' = [heroWorld EXCEPT !.health = r.x.health]
       /\ heroObs' = [ran |-> TRUE, returned |-> FALSE, prev |-> hero.state,
                      decided |-> r.decided, decision |-> r.decision, moveWrites |-> r.x.moveWrites, move |-> r.x.move,
                      turretSet |-> r.x.turretSet, turret |-> r.x.turret, fires |-> r.x.fires,
                      requery |-> r.x.requery, followed |-> r.x.followed,
                      levelUp |-> r.abil.levelUp,
                      casts |-> r.abil.casts]

Hero_update(delta) == Hero_tick(delta) /\ UNCHANGED <<heroSinceNav, notHero>>

\* The same update(delta), timed: the time since the last navigateTo call
\* starts again when the tick called navigateTo and grows by delta otherwise
Chase_update(delta) ==
  /\ Hero_tick(delta)
  /\ heroSinceNav' = IF heroObs'.requery THEN 0 ELSE Min(heroSinceNav + delta, SinceNavCap)
  /\ UNCHANGED notHero

\* update(delta) on a vehicle without mesh or body, or a dead one: it returns
\* at its guards
Hero_updateGuarded ==
  /\ ~(heroWorld.mesh /\ heroWorld.health > 0)
  /\ heroObs' = [NoHeroObs EXCEPT !.returned = TRUE]
  /\ UNCHANGED <<hero, heroWorld, heroSinceNav, notHero>>

HeroNext ==
  \/ \E w \in HeroWorlds : Hero_worldStep(w)
  \/ \E delta \in HeroDeltas : Hero_update(delta)
  \/ Hero_updateGuarded

\* The chase of the player: the hero at its base, on the control point and on
\* the lane with the player out of sight, beyond attackRange and within it
ChaseWorlds ==
  { HeroWorld(Pt(0, 113), 500, TRUE, FarPlayer, FALSE, <<>>, NoAbil),
    HeroWorld(Pt(0, 8), 500, TRUE, FarPlayer, FALSE, <<>>, NoAbil),
    HeroWorld(Pt(0, 40), 500, TRUE, FarPlayer, TRUE, <<>>, NoAbil),
    HeroWorld(Pt(0, 40), 500, TRUE, Pt(0, 72), TRUE, <<>>, NoAbil),
    HeroWorld(Pt(0, 40), 500, TRUE, Pt(0, 72), FALSE, <<>>, NoAbil),
    HeroWorld(Pt(0, 40), 500, TRUE, Pt(0, 25), FALSE, <<>>, NoAbil),
    HeroWorld(Pt(0, 113), 100, TRUE, FarPlayer, TRUE, <<>>, NoAbil) }
ChaseNext ==
  \/ \E w \in ChaseWorlds : Hero_worldStep(w)
  \/ \E delta \in HeroDeltas : Chase_update(delta)

-----------------------------------------------------------------------------
\* MOBAControls: click-to-move, attack target, path following, stuck detection

\* Frame times handed to update(), in tenths of a second
CtlDeltas == {10}

\* Constructor constants and the literals of update()
WaypointArrivalDist == 5
StuckThreshold      == 20
StuckMinDist        == 1
CtlAttackRange      == 15
FinalArrivalDist    == 3
AttackPathPeriod    == 10

\* moveTarget = null
NoTarget == <<>>
\* _attackPathTimer is not set by the constructor: until update() assigns it,
\* it is undefined (NaN after `-= delta`), and `_attackPathTimer <= 0` is false
NaNTimer == -1000

\* What one handler has done so far: the controller fields, the setMoveInput
\* calls (their number and the last arguments), the setTurretInput argument,
\* the fire() calls and whether computePath and followPath were called
CtlCtx(c) ==
  [c |-> c, moveWrites |-> 0, move |-> <<0, 0>>, turretSet |-> FALSE, turret |-> 0,
   fires |-> 0, requery |-> FALSE, followed |-> FALSE]

Ctl_setMoveInput(x, mx, my) ==
  [x EXCEPT !.moveWrites = @ + 1, !.move = <<mx, my>>]

\* The waypoint index computePath starts a computed path with
MOBAControls_startIndex(path, heroPos) ==
  IF Len(path) > 1 /\ Closer(heroPos, path[1], WaypointArrivalDist) THEN 1 ELSE 0

\* computePath; kind is the backend's answer when the nav system is asked
MOBAControls_computePath(x, w, targetPos, kind) ==
  IF ~w.mesh THEN x
  ELSE IF w.navReady
  THEN LET path == MOBANav_findPath(TRUE, 1, w.heroPos, targetPos,
                                    BackendPath(kind, w.heroPos, targetPos)).path
       IN [x EXCEPT !.requery = TRUE, !.c.currentPath = path,
                    !.c.currentWaypointIndex = MOBAControls_startIndex(path, w.heroPos)]
  ELSE [x EXCEPT !.requery = TRUE, !.c.currentPath = <<targetPos>>,
                 !.c.currentWaypointIndex = 0]

\* driveToward
MOBAControls_driveToward(x, w, targetPos) ==
  LET angleDiff == Hero_angleDiff(w.forward, w.heroPos, targetPos)
  IN Ctl_setMoveInput(x, Clamp(angleDiff * 2, -1000, 1000),
                      IF Abs(angleDiff) < 500 THEN 1000
                      ELSE IF Abs(angleDiff) < 1200 THEN 500 ELSE 100)

\* aimAndFire
MOBAControls_aimAndFire(x, w, targetPos) ==
  LET angleDiff == Hero_angleDiff(w.forward, w.heroPos, targetPos)
      x1 == Ctl_setMoveInput(x, Clamp(angleDiff * 2, -1000, 1000), 0)
  IN [x1 EXCEPT !.turretSet = TRUE, !.turret = Clamp(angleDiff * 3, -1000, 1000),
                !.fires = IF Abs(angleDiff) < 300 THEN @ + 1 ELSE @]

\* followPath (indices are 0-based as in the code; currentPath[i + 1] is the
\* code's currentPath[i])
MOBAControls_followPath(x, w) ==
  LET c == x.c
      done(y) == [Ctl_setMoveInput(y, 0, 0) EXCEPT !.c.currentPath = <<>>,
                                                   !.c.moveTarget = NoTarget]
      x0 == [x EXCEPT !.followed = TRUE]
  IN IF c.currentWaypointIndex >= Len(c.currentPath) THEN done(x0)
     ELSE LET i == IF Closer(w.heroPos, c.currentPath[c.currentWaypointIndex + 1],
                             WaypointArrivalDist)
                   THEN c.currentWaypointIndex + 1 ELSE c.currentWaypointIndex
              x1 == [x0 EXCEPT !.c.currentWaypointIndex = i]
          IN IF i >= Len(c.currentPath) THEN done(x1)
             ELSE MOBAControls_driveToward(x1, w, c.currentPath[i + 1])

\* update(): the move-target handling after stuck detection
MOBAControls_moveHandling(x, w) ==
  LET c == x.c
  IN IF c.moveTarget # NoTarget /\ Len(c.currentPath) > 0
     THEN IF Closer(w.heroPos, c.moveTarget, FinalArrivalDist)
          THEN [Ctl_setMoveInput(x, 0, 0) EXCEPT !.c.moveTarget = NoTarget,
                   !.c.currentPath = <<>>, !.c.currentWaypointIndex = 0]
          ELSE MOBAControls_followPath(x, w)
     ELSE IF c.moveTarget # NoTarget
     THEN IF Closer(w.heroPos, c.moveTarget, FinalArrivalDist)
          THEN [Ctl_setMoveInput(x, 0, 0) EXCEPT !.c.moveTarget = NoTarget]
          ELSE MOBAControls_driveToward(x, w, c.moveTarget)
     ELSE Ctl_setMoveInput(x, 0, 0)

\* update(): stuck detection, then the move-target handling unless the goal
\* was abandoned
MOBAControls_stuckDetection(x, w, delta) ==
  LET c == x.c
  IN IF c.moveTarget # NoTarget \/ c.attackTarget # "none"
     THEN IF Closer(w.heroPos, c._lastStuckPos, StuckMinDist)
          THEN IF c._stuckTimer + delta > StuckThreshold
               THEN [Ctl_setMoveInput(x, 0, 0) EXCEPT
                       !.c.moveTarget = NoTarget, !.c.attackTarget = "none",
                       !.c.currentPath = <<>>, !.c.currentWaypointIndex = 0,
                       !.c._stuckTimer = 0, !.c._lastStuckPos = w.heroPos]
               ELSE MOBAControls_moveHandling([x EXCEPT !.c._stuckTimer = @ + delta], w)
          ELSE MOBAControls_moveHandling(
                 [x EXCEPT !.c._stuckTimer = 0, !.c._lastStuckPos = w.heroPos], w)
     ELSE MOBAControls_moveHandling(x, w)

\* update(delta) on a living hero; the attack target is the enemy unit
MOBAControls_update(c, w, delta, kind) ==
  LET x == CtlCtx(c)
  IN IF c.attackTarget # "none" /\ w.enemyAlive
     THEN IF Farther(w.heroPos, w.enemyPos, CtlAttackRange)
          THEN LET x1 == IF Len(c.currentPath) = 0
                            \/ (c._attackPathTimer # NaNTimer /\ c._attackPathTimer <= 0)
                         THEN [MOBAControls_computePath(x, w, w.enemyPos, kind)
                                 EXCEPT !.c._attackPathTimer = AttackPathPeriod]
                         ELSE x
                   x2 == [x1 EXCEPT !.c._attackPathTimer =
                                       IF @ = NaNTimer THEN NaNTimer ELSE @ - delta]
               IN MOBAControls_followPath(x2, w)
          ELSE MOBAControls_aimAndFire(
                 [Ctl_setMoveInput(x, 0, 0) EXCEPT !.c.currentPath = <<>>], w, w.enemyPos)
     ELSE IF c.attackTarget # "none"
     THEN MOBAControls_stuckDetection(
            [x EXCEPT !.c.attackTarget = "none", !.c.currentPath = <<>>], w, delta)
     ELSE MOBAControls_stuckDetection(x, w, delta)

\* handleRightClick; pick is what the click hits: an enemy unit or a ground
\* point (NoTarget when the ray misses the ground plane)
MOBAControls_handleRightClick(c, w, pick, kind) ==
  IF pick.enemy
  THEN [CtlCtx(c) EXCEPT !.c.attackTarget = "enemy", !.c.moveTarget = NoTarget,
                         !.c.currentPath = <<>>, !.c.currentWaypointIndex = 0]
  ELSE IF pick.ground # NoTarget
  THEN MOBAControls_computePath(
         [CtlCtx(c) EXCEPT !.c.moveTarget = pick.ground, !.c.attackTarget = "none"],
         w, pick.ground, kind)
  ELSE CtlCtx(c)

\* handleLeftClick with no ability awaiting a target
MOBAControls_handleLeftClick(c, pick) ==
  IF ~c.isAttackMoveMode THEN c
  ELSE IF pick.enemy
  THEN [c EXCEPT !.attackTarget = "enemy", !.moveTarget = NoTarget,
                 !.isAttackMoveMode = FALSE]
  ELSE IF pick.ground # NoTarget
  THEN [c EXCEPT !.moveTarget = pick.ground, !.attackTarget = "none",
                 !.isAttackMoveMode = FALSE]
  ELSE [c EXCEPT !.isAttackMoveMode = FALSE]

\* The constructor
MOBAControls_new ==
  [moveTarget |-> NoTarget, attackTarget |-> "none", isAttackMoveMode |-> FALSE,
   currentPath |-> <<>>, currentWaypointIndex |-> 0,
   _lastStuckPos |-> Pt(0, 0), _stuckTimer |-> 0, _attackPathTimer |-> NaNTimer]

\* What the handlers find: the player's hero (mesh and body, alive, position,
\* forward vector), the one enemy unit of enemyUnits and whether a ready nav
\* system has been attached
CtlWorld(heroPos, heroAlive, enemyAlive, enemyPos, navReady) ==
  [mesh |-> TRUE, heroPos |-> heroPos, heroAlive |-> heroAlive, forward |-> Pt(0, 1),
   enemyAlive |-> enemyAlive, enemyPos |-> enemyPos, navReady |-> navReady]
FarEnemy == Pt(0, 60)
CtlWorlds ==
  { CtlWorld(Pt(0, 0), TRUE, TRUE, FarEnemy, FALSE),
    CtlWorld(Pt(0, 0), TRUE, TRUE, FarEnemy, TRUE),
    CtlWorld(Pt(0, 0), TRUE, TRUE, Pt(0, 10), FALSE),
    CtlWorld(Pt(0, 0), TRUE, FALSE, FarEnemy, FALSE),
    CtlWorld(Pt(0, 0), FALSE, TRUE, FarEnemy, FALSE),
    CtlWorld(Pt(0, 16), TRUE, TRUE, FarEnemy, FALSE),
    CtlWorld(Pt(0, 19), TRUE, TRUE, FarEnemy, FALSE),
    CtlWorld(Pt(30, 58), TRUE, TRUE, FarEnemy, TRUE),
    [CtlWorld(Pt(0, 0), TRUE, TRUE, FarEnemy, FALSE) EXCEPT !.mesh = FALSE] }

\* Ground points the player clicks and what a click can hit
GroundPts == {Pt(0, 20), Pt(30, 90)}
Picks(w) ==
  {[enemy |-> FALSE, ground |-> g] : g \in GroundPts \cup {NoTarget}}
    \cup (IF w.enemyAlive THEN {[enemy |-> TRUE, ground |-> w.enemyPos]} ELSE {})

NoCtlObs ==
  [ran |-> FALSE, moveWrites |-> 0, move |-> <<0, 0>>, turretSet |-> FALSE,
   turret |-> 0, fires |-> 0, requery |-> FALSE, followed |-> FALSE,
   goal |-> FALSE, still |-> 0]
CtlObs(x) ==
  [NoCtlObs EXCEPT !.moveWrites = x.moveWrites, !.move = x.move,
                   !.turretSet = x.turretSet, !.turret = x.turret, !.fires = x.fires,
                   !.requery = x.requery, !.followed = x.followed]

\* The history of the commands: pathFor is the targetPos of the last
\* computePath call, pathAge the tick time spent chasing since that call,
\* goalAge the tick time since the last command that set a goal, and
\* abandoned tells that stuck detection gave up the goal in the last tick
PathAgeCap == 30
GoalAgeCap == 30
NoTrack == [pathFor |-> NoTarget, pathAge |-> 0, goalAge |-> 0, abandoned |-> FALSE]

CtlInit ==
  /\ ctl = MOBAControls_new
  /\ ctlWorld = CtlWorld(Pt(0, 0), TRUE, TRUE, FarEnemy, FALSE)
  /\ ctlObs = NoCtlObs
  /\ ctlStill = 0
  /\ ctlTrack = NoTrack

\* Between two ticks physics and combat move, kill and respawn the hero and
\* the enemy unit, and a nav system may be attached or disposed
Ctl_worldStep(w) ==
  /\ w # ctlWorld
  /\ ctlWorld' = w
  /\ ctlObs' = NoCtlObs
  /\ UNCHANGED <<ctl, ctlStill, ctlTrack, notCtl>>

\* mousedown with the right button
Ctl_rightClick(pick) ==
  /\ \E kind \in (IF ctlWorld.navReady /\ ~pick.enemy /\ pick.ground # NoTarget
                  THEN PathKinds ELSE {"fail"}) :
     \E x \in {MOBAControls_handleRightClick(ctl, ctlWorld, pick, kind)} :
       /\ ctl' = x.c
       /\ ctlObs' = CtlObs(x)
  /\ UNCHANGED <<ctlWorld, ctlStill, ctlTrack, notCtl>>

\* mousedown with the left button
Ctl_leftClick(pick) ==
  /\ ctl' = MOBAControls_handleLeftClick(ctl, pick)
  /\ ctlObs' = NoCtlObs
  /\ UNCHANGED <<ctlWorld, ctlStill, ctlTrack, notCtl>>

\* keydown / keyup of the attack-move key
Ctl_keyA(down) ==
  /\ ctl' = [ctl EXCEPT !.isAttackMoveMode = down]
  /\ ctlObs' = NoCtlObs
  /\ UNCHANGED <<ctlWorld, ctlStill, ctlTrack, notCtl>>

\* keydown of the stop key
Ctl_keyS ==
  /\ ctl' = [ctl EXCEPT !.moveTarget = NoTarget, !.attackTarget = "none"]
  /\ ctlObs' = CtlObs(Ctl_setMoveInput(CtlCtx(ctl), 0, 0))
  /\ UNCHANGED <<ctlWorld, ctlStill, ctlTrack, notCtl>>

\* The hero has an active goal: a move target or a living attack target
Ctl_hasGoal(c, w) == c.moveTarget # NoTarget \/ (c.attackTarget # "none" /\ w.enemyAlive)

\* update(delta) on a living hero.  ctlStill accumulates the tick time spent
\* with an active goal within _stuckMinDist of the last recorded position.
Ctl_tick(delta) ==
  /\ ctlWorld.mesh /\ ctlWorld.heroAlive
  /\ \E kind \in (IF ctlWorld.navReady /\ Ctl_hasGoal(ctl, ctlWorld) /\ ctl.attackTarget # "none"
                  THEN PathKinds ELSE {"fail"}) :
     \E x \in {MOBAControls_update(ctl, ctlWorld, delta, kind)} :
       LET still == IF Ctl_hasGoal(ctl, ctlWorld)
                       /\ Closer(ctlWorld.heroPos, ctl._lastStuckPos, StuckMinDist)
                    THEN Min(ctlStill + delta, StuckThreshold + delta) ELSE 0
       IN /\ ctl' = x.c
          /\ ctlObs' = [CtlObs(x) EXCEPT !.ran = TRUE, !.still = still,
                                                  !.goal = Ctl_hasGoal(ctl, ctlWorld)]
          /\ ctlStill' = IF Ctl_hasGoal(x.c, ctlWorld) THEN still ELSE 0
  /\ UNCHANGED ctlWorld

Ctl_update(delta) == Ctl_tick(delta) /\ UNCHANGED <<ctlTrack, notCtl>>

\* update(delta) on a dead hero: it stops the hero and returns
Ctl_updateDead ==
  /\ ctlWorld.mesh /\ ~ctlWorld.heroAlive
  /\ ctlObs' = CtlObs(Ctl_setMoveInput(CtlCtx(ctl), 0, 0))
  /\ UNCHANGED <<ctl, ctlWorld, ctlStill, ctlTrack, notCtl>>

\* update(delta) on a hero without mesh or body: it returns at its guard
Ctl_updateGuarded ==
  /\ ~ctlWorld.mesh
  /\ ctlObs' = NoCtlObs
  /\ UNCHANGED <<ctl, ctlWorld, ctlStill, ctlTrack, notCtl>>

CtlNext ==
  \/ \E w \in CtlWorlds : Ctl_worldStep(w)
  \/ \E pick \in Picks(ctlWorld) : Ctl_rightClick(pick)
  \/ \E pick \in Picks(ctlWorld) : Ctl_leftClick(pick)
  \/ \E down \in BOOLEAN : Ctl_keyA(down)
  \/ Ctl_keyS
  \/ \E delta \in CtlDeltas : Ctl_update(delta)
  \/ Ctl_updateDead
  \/ Ctl_updateGuarded

\* update(): the tick chases a living attack target beyond attack range
MOBAControls_chases(c, w) ==
  c.attackTarget # "none" /\ w.enemyAlive /\ Farther(w.heroPos, w.enemyPos, CtlAttackRange)

\* update(): stuck detection is reached with a goal and declares the hero stuck
MOBAControls_abandons(c, w, delta) ==
  /\ ~(c.attackTarget # "none" /\ w.enemyAlive)
  /\ c.moveTarget # NoTarget
  /\ Closer(w.heroPos, c._lastStuckPos, StuckMinDist)
  /\ c._stuckTimer + delta > StuckThreshold

\* The same handlers with the history of the commands kept.  Frames of
\* 1.0 s; the hero stands at its start, has moved on, or the enemy
\* unit is dead
TrackDeltas == {10}
TrackWorlds ==
  { CtlWorld(Pt(0, 0), TRUE, TRUE, FarEnemy, FALSE),
    CtlWorld(Pt(0, 0), TRUE, TRUE, FarEnemy, TRUE),
    CtlWorld(Pt(0, 16), TRUE, TRUE, FarEnemy, FALSE),
    CtlWorld(Pt(0, 0), TRUE, FALSE, FarEnemy, FALSE) }

Track_worldStep(w) ==
  /\ w # ctlWorld
  /\ ctlWorld' = w
  /\ ctlObs' = NoCtlObs
  /\ UNCHANGED <<ctl, ctlStill, ctlTrack, notCtl>>

Track_rightClick(pick) ==
  /\ \E kind \in (IF ctlWorld.navReady /\ ~pick.enemy /\ pick.ground # NoTarget
                  THEN PathKinds ELSE {"fail"}) :
     \E x \in {MOBAControls_handleRightClick(ctl, ctlWorld, pick, kind)} :
       /\ ctl' = x.c
       /\ ctlObs' = CtlObs(x)
       /\ ctlTrack' = [pathFor |-> IF x.requery THEN pick.ground ELSE ctlTrack.pathFor,
                       pathAge |-> IF x.requery THEN 0 ELSE ctlTrack.pathAge,
                       goalAge |-> IF pick.enemy \/ pick.ground # NoTarget
                                   THEN 0 ELSE ctlTrack.goalAge,
                       abandoned |-> FALSE]
  /\ UNCHANGED <<ctlWorld, ctlStill, notCtl>>

Track_leftClick(pick) ==
  /\ ctl' = MOBAControls_handleLeftClick(ctl, pick)
  /\ ctlObs' = NoCtlObs
  /\ ctlTrack' = [ctlTrack EXCEPT
                    !.goalAge = IF ctl.isAttackMoveMode /\ (pick.enemy \/ pick.ground # NoTarget)
                                THEN 0 ELSE @,
                    !.abandoned = FALSE]
  /\ UNCHANGED <<ctlWorld, ctlStill, notCtl>>

Track_keyA(down) ==
  /\ ctl' = [ctl EXCEPT !.isAttackMoveMode = down]
  /\ ctlObs' = NoCtlObs
  /\ UNCHANGED <<ctlWorld, ctlStill, ctlTrack, notCtl>>

Track_keyS ==
  /\ ctl' = [ctl EXCEPT !.moveTarget = NoTarget, !.attackTarget = "none"]
  /\ ctlObs' = CtlObs(Ctl_setMoveInput(CtlCtx(ctl), 0, 0))
  /\ ctlTrack' = [ctlTrack EXCEPT !.abandoned = FALSE]
  /\ UNCHANGED <<ctlWorld, ctlStill, notCtl>>

Track_update(delta) ==
  /\ Ctl_tick(delta)
  /\ ctlTrack' = [pathFor |-> IF ctlObs'.requery THEN ctlWorld.enemyPos ELSE ctlTrack.pathFor,
                  pathAge |-> IF ctlObs'.requery \/ ~MOBAControls_chases(ctl, ctlWorld) THEN 0
                              ELSE Min(ctlTrack.pathAge + delta, PathAgeCap),
                  goalAge |-> Min(ctlTrack.goalAge + delta, GoalAgeCap),
                  abandoned |-> MOBAControls_abandons(ctl, ctlWorld, delta)]
  /\ UNCHANGED notCtl

TrackNext ==
  \/ \E w \in TrackWorlds : Track_worldStep(w)
  \/ \E pick \in Picks(ctlWorld) : Track_rightClick(pick)
  \/ \E pick \in Picks(ctlWorld) : Track_leftClick(pick)
  \/ \E down \in BOOLEAN : Track_keyA(down)
  \/ Track_keyS
  \/ \E delta \in TrackDeltas : Track_update(delta)

-----------------------------------------------------------------------------
\* The path followers of MOBAHeroAI (navigateTo / followNavPath) and of
\* MOBAControls (computePath / followPath), applied to the same queries and the
\* same agent positions

\* Positions of the agent and goals of the path queries
FollowPts   == {Pt(0, 0), Pt(3, 0), Pt(30, 58), Pt(27, 63), Pt(0, 113), Pt(0, 100)}
FollowGoals == {Pt(0, 115), Pt(30, 66)}

\* The part of the world the followers read
FollowWorld(pos, navReady) ==
  [mesh |-> TRUE, myPos |-> pos, heroPos |-> pos, forward |-> Pt(0, 1), navReady |-> navReady]

FollowInit ==
  /\ fwHero = [navPath |-> <<>>, navPathIndex |-> 0]
  /\ fwCtl = [currentPath |-> <<>>, currentWaypointIndex |-> 0, moveTarget |-> NoTarget]
  /\ fwPos = Pt(0, 0)
  /\ fwOp = "none"

\* navigateTo(goal) of the hero AI and a move order to goal (moveTarget = goal,
\* computePath(goal)) of the controls, with the agent at pos
Follow_navigate(pos, goal, navReady, kind) ==
  LET w == FollowWorld(pos, navReady)
  IN /\ fwHero' = MOBAHeroAI_navigateTo(HeroCtx(fwHero, HeroMaxHealth), w, goal, kind).h
     /\ fwCtl' = MOBAControls_computePath(
                   CtlCtx([fwCtl EXCEPT !.moveTarget = goal]), w, goal, kind).c
     /\ fwPos' = pos
     /\ fwOp' = "navigate"
     /\ UNCHANGED notFollow

\* One tick with the agent at pos: followNavPath of the hero AI and followPath
\* of the controls
Follow_tick(pos) ==
  LET w == FollowWorld(pos, TRUE)
  IN /\ fwHero' = MOBAHeroAI_followNavPath(HeroCtx(fwHero, HeroMaxHealth), w, TRUE).h
     /\ fwCtl' = MOBAControls_followPath(CtlCtx(fwCtl), w).c
     /\ fwPos' = pos
     /\ fwOp' = "tick"
     /\ UNCHANGED notFollow

FollowNext ==
  \/ \E pos \in FollowPts, goal \in FollowGoals, kind \in PathKinds :
       Follow_navigate(pos, goal, TRUE, kind)
  \/ \E pos \in FollowPts, goal \in FollowGoals : Follow_navigate(pos, goal, FALSE, "fail")
  \/ \E pos \in FollowPts : Follow_tick(pos)

-----------------------------------------------------------------------------
\* The squad controller's separation pass (post-movement, every tick) over
\* three followers standing on one line, which the nudges of a pair never
\* leave; they start in formation, 4 units apart.  Positions along that line are in ten-thousandths of a unit.

\* Frame times handed to the pass, in tenths of a second
SquadDeltas == {1, 2}

\* The minimum separation distance (2 units) and the strength constant (per
\* second)
SeparationDist     == 20000
SeparationStrength == 1

\* Where movement can have put the followers before the pass; they are rigid
\* bodies, no two of which stand on the same point
SquadCoords == {0, 5000, 15000, 19000, 40000}
SquadPlaces == {f \in [1..3 -> SquadCoords] : f[1] # f[2] /\ f[2] # f[3] /\ f[1] # f[3]}
SquadAlive  == {<<TRUE, TRUE, TRUE>>, <<TRUE, FALSE, TRUE>>}

\* The pairs in the order the pass visits them
SquadPairs == <<<<1, 2>>, <<1, 3>>, <<2, 3>>>>

\* The nudge of one pair closer than SeparationDist: the overlap times the
\* strength times the elapsed time, away from each other
Squad_nudge_SameWay(pos, i, j, delta) ==
  LET push == ((SeparationDist - Abs(pos[j] - pos[i])) * SeparationStrength * delta) \div 10
  IN [pos EXCEPT ![i] = @ + push, ![j] = @ + push]

Squad_nudge(pos, i, j, delta) ==
  LET push == ((SeparationDist - Abs(pos[j] - pos[i])) * SeparationStrength * delta) \div 10
      dir  == IF pos[j] > pos[i] THEN 1 ELSE IF pos[j] < pos[i] THEN -1 ELSE 0
  IN [pos EXCEPT ![i] = @ - dir * push, ![j] = @ + dir * push]

\* The pass from pair k on: every pair of alive followers closer than
\* SeparationDist is nudged in place; log keeps each nudged pair with the
\* positions right before and right after its nudge
RECURSIVE Squad_separationPass(_, _, _, _, _)
Squad_separationPass(pos, alive, delta, k, log) ==
  IF k > Len(SquadPairs) THEN [pos |-> pos, log |-> log]
  ELSE LET i == SquadPairs[k][1]
           j == SquadPairs[k][2]
       IN IF alive[i] /\ alive[j] /\ Abs(pos[j] - pos[i]) < SeparationDist
          THEN LET after == Squad_nudge(pos, i, j, delta)
               IN Squad_separationPass(after, alive, delta, k + 1,
                    Append(log, [i |-> i, j |-> j, before |-> pos, after |-> after]))
          ELSE Squad_separationPass(pos, alive, delta, k + 1, log)

SquadInit ==
  /\ sqAlive = <<TRUE, TRUE, TRUE>>
  /\ sqMoved = <<0, 40000, 80000>>
  /\ sqPos = <<0, 40000, 80000>>
  /\ sqLog = <<>>

\* One tick: movement has put the followers at moved, then the pass runs
Squad_update(moved, alive, delta) ==
  /\ \E r \in {Squad_separationPass(moved, alive, delta, 1, <<>>)} :
       /\ sqPos' = r.pos
       /\ sqLog' = r.log
  /\ sqMoved' = moved
  /\ sqAlive' = alive
  /\ UNCHANGED notSquad

SquadNext ==
  \E moved \in SquadPlaces, alive \in SquadAlive, delta \in SquadDeltas :
    Squad_update(moved, alive, delta)

-----------------------------------------------------------------------------
\* ControlPoint: the central capture point.  captureProgress is in 300ths
\* (300 = 1.0), so that a tenth of a second captures 10 (delta / captureTime),
\* decays 6 while contested (delta * 0.2) and 3 while empty (delta * 0.1);
\* scores are in tenths of a point.

\* Frame times handed to update(), in tenths of a second
PointDeltas == {5, 10}

\* captureProgress 1.0, and its change per tenth of a second
FullProgress   == 300
CaptureStep    == 10
ContestedDecay == 6
IdleDecay      == 3

\* Scores are told apart up to this many tenths of a point
ScoreCap == 20

\* How many living units of a team update() can find inside the capture radius
UnitCounts == 0..2

ControlPoint_new ==
  [captureProgress |-> 0, captureTeam |-> "null", controllingTeam |-> "null",
   isContested |-> FALSE, blueScore |-> 0, redScore |-> 0]

\* One team alone on the point (the branches for blue and for red are the same
\* up to the team), and a decapture that leaves the controlling team in place
ControlPoint_capture_KeepControl(c, team, other, delta) ==
  LET c1 == IF c.captureTeam = team
            THEN [c EXCEPT !.captureProgress = Min(FullProgress, @ + delta * CaptureStep)]
            ELSE IF c.captureTeam = other
            THEN LET p == Max(0, c.captureProgress - delta * CaptureStep)
                 IN IF p <= 0
                    THEN [c EXCEPT !.captureProgress = p, !.captureTeam = team]
                    ELSE [c EXCEPT !.captureProgress = p]
            ELSE [c EXCEPT !.captureTeam = team,
                           !.captureProgress = Min(FullProgress, @ + delta * CaptureStep)]
  IN IF c1.captureTeam = team /\ c1.captureProgress >= FullProgress
     THEN [c1 EXCEPT !.controllingTeam = team] ELSE c1

ControlPoint_capture(c, team, other, delta) ==
  LET c1 == IF c.captureTeam = team
            THEN [c EXCEPT !.captureProgress = Min(FullProgress, @ + delta * CaptureStep)]
            ELSE IF c.captureTeam = other
            THEN LET p == Max(0, c.captureProgress - delta * CaptureStep)
                 IN IF p <= 0
                    THEN [c EXCEPT !.captureProgress = p, !.captureTeam = team,
                                   !.controllingTeam = "null"]
                    ELSE [c EXCEPT !.captureProgress = p]
            ELSE [c EXCEPT !.captureTeam = team,
                           !.captureProgress = Min(FullProgress, @ + delta * CaptureStep)]
  IN IF c1.captureTeam = team /\ c1.captureProgress >= FullProgress
     THEN [c1 EXCEPT !.controllingTeam = team] ELSE c1

\* The capture state after update(delta, blueUnits, redUnits)
ControlPoint_captureState(c, delta, blueInRange, redInRange) ==
  LET bluePresent == blueInRange > 0
      redPresent  == redInRange > 0
      c0 == [c EXCEPT !.isContested = bluePresent /\ redPresent]
  IN IF c0.isContested
     THEN [c0 EXCEPT !.captureProgress = Max(0, @ - delta * ContestedDecay)]
     ELSE IF bluePresent /\ ~redPresent THEN ControlPoint_capture(c0, "blue", "red", delta)
     ELSE IF redPresent /\ ~bluePresent THEN ControlPoint_capture(c0, "red", "blue", delta)
     ELSE IF c0.controllingTeam = "null"
     THEN LET p == Max(0, c0.captureProgress - delta * IdleDecay)
          IN IF p <= 0 THEN [c0 EXCEPT !.captureProgress = p, !.captureTeam = "null"]
             ELSE [c0 EXCEPT !.captureProgress = p]
     ELSE c0

\* update(): the capture state, then the scoring
ControlPoint_update(c, delta, blueInRange, redInRange) ==
  LET c1 == ControlPoint_captureState(c, delta, blueInRange, redInRange)
  IN IF c1.controllingTeam = "blue" THEN [c1 EXCEPT !.blueScore = Min(@ + delta, ScoreCap)]
     ELSE IF c1.controllingTeam = "red" THEN [c1 EXCEPT !.redScore = Min(@ + delta, ScoreCap)]
     ELSE c1

NoPointObs == [ran |-> FALSE, prev |-> ControlPoint_new, blueInRange |-> 0, redInRange |-> 0]

PointInit ==
  /\ cp = ControlPoint_new
  /\ cpObs = NoPointObs

Point_update(delta, blueInRange, redInRange) ==
  /\ cp' = ControlPoint_update(cp, delta, blueInRange, redInRange)
  /\ cpObs' = [ran |-> TRUE, prev |-> cp, blueInRange |-> blueInRange,
               redInRange |-> redInRange]
  /\ UNCHANGED notPoint

PointNext ==
  \E delta \in PointDeltas, blueInRange \in UnitCounts, redInRange \in UnitCounts :
    Point_update(delta, blueInRange, redInRange)

-----------------------------------------------------------------------------
\* MinionWave and the game's wiring of the damage-target lists.  The minions a
\* wave spawns for one team differ in lane and position only, so a team's
\* minion list holds one entry per wave.  Each team has its hero and one tower
\* standing for its towers.

\* Frame times handed to update(), in tenths of a second
WaveDeltas == {50, 100}

WaveInterval   == 300
FirstWaveDelay == 150
\* The time a dead minion is kept for its death animation
DeathKeepTime  == 30

\* The update time after which the model stops the clock
MaxWaveTime == 850

Teams == {"blue", "red"}
TeamOf(u) == IF u \in {"blueHero", "blueTower"} THEN "blue" ELSE "red"
WaveTowers == {"blueTower", "redTower"}

\* The units of a list that are standing (towers filtered by t.alive)
AliveOf(list, towers) == SelectSeq(list, LAMBDA u : u \notin WaveTowers \/ u \in towers)

MinionWave_new ==
  [waveTimer |-> -FirstWaveDelay, waveCount |-> 0, assetsLoaded |-> FALSE,
   blueDamageTargets |-> <<>>, redDamageTargets |-> <<>>,
   blueMinions |-> <<>>, redMinions |-> <<>>, loading |-> 0]

\* Game.wireDamageTargets: the lists handed to the wave manager
Game_wireDamageTargets(m) ==
  LET redTargets  == <<"redHero", "redTower">>
      blueTargets == <<"blueHero", "blueTower">>
  IN [m EXCEPT !.redDamageTargets = blueTargets, !.blueDamageTargets = redTargets]

\* Game.updateDynamicTargets: the lists handed to the wave manager
Game_updateDynamicTargets(m, towers) ==
  [m EXCEPT !.blueDamageTargets = AliveOf(<<"redHero", "redTower">>, towers),
            !.redDamageTargets = AliveOf(<<"blueHero", "blueTower">>, towers)]

\* The list spawnLaneWave assigns to a minion of a team
MinionWave_targetsFor(m, team) ==
  IF team = "blue" THEN m.redDamageTargets ELSE m.blueDamageTargets

\* spawnLaneWave for a team, once the minion's load() has resolved
MinionWave_spawnLaneWave(m, team) ==
  LET minion == [team |-> team, damageTargets |-> MinionWave_targetsFor(m, team),
                 alive |-> TRUE, deathTimer |-> 0]
  IN IF team = "blue" THEN [m EXCEPT !.blueMinions = Append(@, minion)]
     ELSE [m EXCEPT !.redMinions = Append(@, minion)]

\* The wave timer of update(): whether a wave is due after delta more
MinionWave_waveDue(waveTimer, delta) == waveTimer + delta >= WaveInterval

\* updateTeamMinions for one minion: the unit it engages when near is the
\* nearest living unit within engageRange and no enemy minion is nearer
MinionWave_engaged(minion, near, towers) ==
  IF minion.alive /\ near # "none"
     /\ \E i \in DOMAIN minion.damageTargets : minion.damageTargets[i] = near
     /\ (near \notin WaveTowers \/ near \in towers)
  THEN near ELSE "none"

\* The clean-up of a team's list: dead minions are kept through their death
\* animation and then dropped
RECURSIVE MinionWave_cleanUp(_, _)
MinionWave_cleanUp(minions, delta) ==
  IF minions = <<>> THEN <<>>
  ELSE LET m == Head(minions)
           rest == MinionWave_cleanUp(Tail(minions), delta)
       IN IF m.alive THEN <<m>> \o rest
          ELSE IF m.deathTimer + delta > DeathKeepTime THEN rest
          ELSE <<[m EXCEPT !.deathTimer = @ + delta]>> \o rest

\* update(delta); spawnWave() returns at once without loaded assets, and
\* otherwise counts the wave and starts loading its minions
MinionWave_update(m, delta) ==
  LET due == MinionWave_waveDue(m.waveTimer, delta)
      m1 == [m EXCEPT !.waveTimer = IF due THEN @ + delta - WaveInterval ELSE @ + delta]
      m2 == IF due /\ m1.assetsLoaded
            THEN [m1 EXCEPT !.waveCount = @ + 1, !.loading = @ + 1]
            ELSE m1
  IN [m2 EXCEPT !.blueMinions = MinionWave_cleanUp(@, delta),
                !.redMinions = MinionWave_cleanUp(@, delta)]

NoWaveObs == [ran |-> FALSE, spawned |-> FALSE, engaged |-> {}]

WaveInit ==
  /\ mw = MinionWave_new
  /\ mwTowers = WaveTowers
  /\ mwObs = NoWaveObs
  /\ mwElapsed = 0

\* Game.init: loadAssets() is awaited, then wireDamageTargets()
Wave_init ==
  /\ ~mw.assetsLoaded
  /\ mw' = Game_wireDamageTargets([mw EXCEPT !.assetsLoaded = TRUE])
  /\ mwObs' = NoWaveObs
  /\ UNCHANGED <<mwTowers, mwElapsed, notWave>>

\* A frame of the game: minionWave.update(delta), then updateDynamicTargets();
\* near is the unit next to the minions in this frame
Wave_update(delta, near) ==
  /\ mwElapsed < MaxWaveTime
  /\ LET m1 == MinionWave_update(mw, delta)
     IN /\ mw' = IF mw.assetsLoaded THEN Game_updateDynamicTargets(m1, mwTowers) ELSE m1
        /\ mwObs' = [ran |-> TRUE, spawned |-> m1.waveCount > mw.waveCount,
                     engaged |-> {<<mw.blueMinions[i].team,
                                    MinionWave_engaged(mw.blueMinions[i], near, mwTowers)>> :
                                      i \in DOMAIN mw.blueMinions}
                                 \cup {<<mw.redMinions[i].team,
                                    MinionWave_engaged(mw.redMinions[i], near, mwTowers)>> :
                                      i \in DOMAIN mw.redMinions}]
  /\ mwElapsed' = mwElapsed + delta
  /\ UNCHANGED <<mwTowers, notWave>>

\* The minions of a counted wave have loaded: spawnLaneWave makes them
Wave_spawned ==
  /\ mw.loading > 0
  /\ mw' = [MinionWave_spawnLaneWave(MinionWave_spawnLaneWave(mw, "blue"), "red")
              EXCEPT !.loading = @ - 1]
  /\ mwObs' = NoWaveObs
  /\ UNCHANGED <<mwTowers, mwElapsed, notWave>>

\* Combat between two frames: a tower falls, the oldest minion of a team dies
Wave_towerFalls(t) ==
  /\ t \in mwTowers
  /\ mwTowers' = mwTowers \ {t}
  /\ mwObs' = NoWaveObs
  /\ UNCHANGED <<mw, mwElapsed, notWave>>

Wave_minionDies(team) ==
  /\ LET list == IF team = "blue" THEN mw.blueMinions ELSE mw.redMinions
     IN /\ list # <<>> /\ list[1].alive
        /\ mw' = IF team = "blue" THEN [mw EXCEPT !.blueMinions[1].alive = FALSE]
                  ELSE [mw EXCEPT !.redMinions[1].alive = FALSE]
  /\ mwObs' = NoWaveObs
  /\ UNCHANGED <<mwTowers, mwElapsed, notWave>>

WaveNext ==
  \/ Wave_init
  \/ \E delta \in WaveDeltas, near \in {"none", "blueHero", "redHero", "blueTower", "redTower"} :
       Wave_update(delta, near)
  \/ Wave_spawned
  \/ \E t \in WaveTowers : Wave_towerFalls(t)
  \/ \E team \in Teams : Wave_minionDies(team)

-----------------------------------------------------------------------------
\* Specifications

Init == NavInit /\ SteerInit /\ SoloInit /\ HeroInit /\ CtlInit /\ FollowInit /\ SquadInit
        /\ PointInit /\ WaveInit

SpecNav   == Init /\ [][NavNext]_vars
SpecSteer == Init /\ [][SteerNext]_vars
SpecSolo  == Init /\ [][SoloNext]_vars
SpecHero  == Init /\ [][HeroNext]_vars
SpecCtl   == Init /\ [][CtlNext]_vars
SpecTrack == Init /\ [][TrackNext]_vars
SpecFollow == Init /\ [][FollowNext]_vars
SpecDwell  == Init /\ [][DwellNext]_vars
SpecChase  == Init /\ [][ChaseNext]_vars
SpecSquad  == Init /\ [][SquadNext]_vars
SpecPoint  == Init /\ [][PointNext]_vars
SpecWave   == Init /\ [][WaveNext]_vars

Next == NavNext \/ SteerNext \/ SoloNext \/ HeroNext \/ CtlNext \/ TrackNext \/ FollowNext \/ DwellNext \/ ChaseNext \/ SquadNext \/ PointNext \/ WaveNext
Spec == Init /\ [][Next]_vars

-----------------------------------------------------------------------------
\* Claims about the navigation services (checked under SpecNav)

C2_FailedBuildKeepsFields ==
  [][ /\ (navOp'.op = "buildFail" /\ navOp'.sys = "nm") =>
            UNCHANGED <<nmReady, nmNavMesh, nmNavMeshQuery>>
      /\ (navOp'.op = "buildFail" /\ navOp'.sys = "mb") =>
            UNCHANGED <<mbReady, mbNavMesh, mbNavMeshQuery>>
      /\ nmReady' => (nmNavMesh' # NoMesh /\ nmNavMeshQuery' # NoMesh)
      /\ mbReady' => (mbNavMesh' # NoMesh /\ mbNavMeshQuery' # NoMesh) ]_vars

\* C2 reached: a build of a MOBANavSystem that never had a mesh has just failed
C2_Witness ==
  /\ navOp.op = "buildFail" /\ navOp.sys = "mb"
  /\ ~mbReady /\ mbNavMesh = NoMesh /\ mbNavMeshQuery = NoMesh

\* C2 as stated: after a failed build() the service has ready = false,
\* navMesh = null and navMeshQuery = null, and ready = true implies both non-null.
C2_Original ==
  /\ (navOp.op = "buildFail" /\ navOp.sys = "nm") =>
        (~nmReady /\ nmNavMesh = NoMesh /\ nmNavMeshQuery = NoMesh)
  /\ (navOp.op = "buildFail" /\ navOp.sys = "mb") =>
        (~mbReady /\ mbNavMesh = NoMesh /\ mbNavMeshQuery = NoMesh)
  /\ nmReady => (nmNavMesh # NoMesh /\ nmNavMeshQuery # NoMesh)
  /\ mbReady => (mbNavMesh # NoMesh /\ mbNavMeshQuery # NoMesh)

\* C26: a build() that was in flight when dispose() ran does not make the
\* service ready: when the step after a dispose() is the resumption of a
\* suspended build of the same service (no build() was invoked in between),
\* ready is still false and navMesh and navMeshQuery are still null.
C26_Original ==
  [][ /\ (navOp.op = "dispose" /\ navOp.sys = "nm" /\ navOp'.sys = "nm"
            /\ navOp'.op \in {"buildOk", "buildFail"}) =>
              (~nmReady' /\ nmNavMesh' = NoMesh /\ nmNavMeshQuery' = NoMesh)
      /\ (navOp.op = "dispose" /\ navOp.sys = "mb" /\ navOp'.sys = "mb"
            /\ navOp'.op \in {"buildOk", "buildFail"}) =>
              (~mbReady' /\ mbNavMesh' = NoMesh /\ mbNavMeshQuery' = NoMesh) ]_vars

-----------------------------------------------------------------------------
\* Claims about the steering routines (checked under SpecSteer)

\* The end-to-end scenario: agent at the origin, forward = +Z, target at (10, 0, 0)
ScenarioC9 ==
  stForward = Pt(0, 1) /\ stMyPos = Pt(0, 0) /\ stTargetPos = Pt(10, 0)

\* C9 (as amended): for an agent at the origin with forward vector +Z and a
\* target at (10, 0, 0), AIController.angleTo returns the negative angle -pi/2
\* (by the routine's own sign convention the target is to the left), the
\* steering input of steerToward saturates at -1, and with wantForward = true
\* the throttle is 0.
C9_ScenarioSteersLeft ==
  ScenarioC9 =>
    /\ stSolo.angle = -HalfPiMilli
    /\ stSolo.moveX = -1000
    /\ stWantForward => stSolo.moveY = 0

\* C9 reached: the scenario has been steered with wantForward = true
C9_Witness == ScenarioC9 /\ stWantForward /\ stSolo.angle # 0

\* C9 as stated: in the scenario angleTo is positive (+pi/2), the steering
\* input saturates at +1 and the throttle with wantForward = true is 0.
C9_Original ==
  ScenarioC9 =>
    /\ stSolo.angle > 0 /\ stSolo.angle = HalfPiMilli
    /\ stSolo.moveX = 1000
    /\ stWantForward => stSolo.moveY = 0

\* C10 (as amended): AIController.steerToward returns throttle 0 when
\* wantForward is false, otherwise 1 when |angle| < 0.5 rad, the partial throttle
\* 0.3 when |angle| < 1.0 rad and exactly 0 for every larger angle.
\* MOBAHeroAI.steerToward writes throttle 0 when moveForward is false, otherwise
\* 1 when |angle| < 0.5 rad, 0.5 when |angle| < 1.2 rad and 0.1 (never 0) for
\* every larger angle.
C10_ForwardPolicies ==
  /\ ~stWantForward => (stSolo.moveY = 0 /\ stHero.moveY = 0)
  /\ stWantForward =>
       /\ stSolo.moveY = (IF Abs(stSolo.angle) < 500 THEN 1000
                          ELSE IF Abs(stSolo.angle) < 1000 THEN 300 ELSE 0)
       /\ stHero.moveY = (IF Abs(stHero.angle) < 500 THEN 1000
                          ELSE IF Abs(stHero.angle) < 1200 THEN 500 ELSE 100)

\* C10 reached: both routines were asked to drive forward at an angle beyond
\* their last threshold
C10_Witness ==
  /\ stWantForward
  /\ Abs(stSolo.angle) >= 1000 /\ stSolo.moveY = 0
  /\ Abs(stHero.angle) >= 1200 /\ stHero.moveY = 100

\* C10 as stated: both routines return 0 without wantForward, otherwise 1 below
\* the threshold (0.5 rad), a partial throttle below twice the threshold and
\* exactly 0 for every larger angle.
C10_Original ==
  LET Policy(r) ==
        IF ~stWantForward THEN r.moveY = 0
        ELSE IF Abs(r.angle) < TurnInPlaceThreshold THEN r.moveY = 1000
        ELSE IF Abs(r.angle) < 2 * TurnInPlaceThreshold THEN r.moveY > 0 /\ r.moveY < 1000
        ELSE r.moveY = 0
  IN Policy(stSolo) /\ Policy(stHero)

-----------------------------------------------------------------------------
\* Claims about the solo vehicle controller (checked under SpecSolo)

\* C3: in both versions of the solo vehicle controller an update() takes the
\* controller from chase to patrol only when the player's distance exceeds
\* 1.2 x detectRange, and from patrol to chase only when the distance is below
\* detectRange (a strictly smaller threshold); so no tick at a distance at or
\* below 1.2 x detectRange, on either side of detectRange, goes chase -> patrol.
C3_ChaseExitHysteresis ==
  [][ LET d2 == DistSq(SoloMyPos, aiWorld.playerPos)
          ExitsChase  == \/ ai.state = "chase" /\ ai'.state = "patrol"
                         \/ oa.state = "chase" /\ oa'.state = "patrol"
          EntersChase == \/ ai.state = "patrol" /\ ai'.state = "chase"
                         \/ oa.state = "patrol" /\ oa'.state = "chase"
      IN /\ ExitsChase  => d2 * 25 > DetectRange * DetectRange * 36
         /\ EntersChase => d2 < DetectRange * DetectRange
         /\ DetectRange * DetectRange * 36 > DetectRange * DetectRange * 25 ]_vars

\* C3 reached: an update() that started in chase with the player between
\* detectRange and 1.2 x detectRange has left the controller in chase
C3_Witness ==
  /\ aiVersion = "part_011" /\ aiObs.ran /\ aiObs.prev = "chase" /\ ai.state = "chase"
  /\ ~Closer(SoloMyPos, aiWorld.playerPos, DetectRange)
  /\ DistSq(SoloMyPos, aiWorld.playerPos) * 25 <= DetectRange * DetectRange * 36

\* C8 as stated, for the solo vehicle controller: an update() that finds the
\* player dead does not fire, does not aim the turret at the player and leaves
\* the controller in its default behaviour (patrol), not in chase or attack.
C8_Original ==
  (aiObs.ran /\ ~aiWorld.playerAlive) =>
     /\ ~aiObs.fired
     /\ aiObs.out.turretX = 0
     /\ (aiVersion = "part_011" => ai.state = "patrol")
     /\ (aiVersion = "AIController.js" => oa.state = "patrol")

\* The controller of the version the build holds
SoloState     == IF aiVersion = "part_011" THEN ai.state ELSE oa.state
SoloFireTimer == IF aiVersion = "part_011" THEN ai.fireTimer ELSE oa.fireTimer

\* C11: the solo vehicle controller calls vehicle.fire() only in a tick in
\* which its state is attack, the absolute turret aim error is below its
\* aimThreshold and at least fireCooldown - fireCooldownVariance / 2 of
\* attack-state time has accumulated since its previous fire() call (or since
\* its start); fireTimer is 0 after every shot.
C11_FireOnlyAimedAndCooled ==
  (aiObs.ran /\ aiObs.fired) =>
     /\ SoloState = "attack"
     /\ Abs(aiObs.aimError) < (IF aiVersion = "part_011" THEN AimThreshold ELSE OldAimThreshold)
     /\ 2 * aiObs.attackTime >= 2 * FireCooldown - FireCooldownVariance
     /\ SoloFireTimer = 0

\* C11 reached: the controller has fired in a tick that started in attack with
\* the turret off the hull axis
C11_Witness ==
  /\ aiVersion = "part_011" /\ aiObs.ran /\ aiObs.fired /\ aiObs.prev = "attack"
  /\ aiObs.aimError # 0 /\ ai.fireTimer = 0

\* C16: in the solo vehicle controller the obstacle-avoidance bias is added to
\* the raw turn only in ticks where the raw throttle of the current state is
\* strictly positive; with a zero or negative raw throttle the raw turn is
\* passed on unchanged, and after adding the bias the raw turn is within [-1, 1].
C16_AvoidanceOnlyWhenDriving ==
  (aiObs.ran /\ aiVersion = "part_011") =>
     /\ aiObs.raw.moveY <= 0 => aiObs.rawX = aiObs.raw.moveX
     /\ aiObs.raw.moveY > 0 =>
          aiObs.rawX = Clamp(aiObs.raw.moveX + ai.obstacleAvoidSteer, -1000, 1000)
     /\ aiObs.rawX >= -1000 /\ aiObs.rawX <= 1000

\* C16 reached: the controller has reversed away from the player with an
\* obstacle ahead, and the bias was left out
C16_Witness ==
  /\ aiObs.ran /\ aiVersion = "part_011" /\ ai.obstacleAvoidSteer # 0
  /\ aiObs.raw.moveY < 0 /\ aiObs.rawX = aiObs.raw.moveX

\* C17 as stated (checked under SpecDwell): in patrol every arrival within 5
\* units of the patrol target starts a dwell of at least 1 and at most 3 seconds
\* (to the frame) during which the raw turn and throttle are 0, and a new patrol
\* target is picked only when that dwell has elapsed -- also after the
\* controller left patrol for chase and came back.
C17_Original ==
  (aiObs.ran /\ aiVersion = "part_011" /\ aiObs.dwell > 0) =>
     /\ aiObs.raw.moveX = 0 /\ aiObs.raw.moveY = 0
     /\ aiObs.dwellOver => (aiObs.dwell >= 10 /\ aiObs.dwell <= 30 + aiObs.dwell - aiDwell)

\* The attack range of the version the build holds
SoloAttackRange == IF aiVersion = "part_011" THEN AttackRange ELSE OldAttackRange

\* C25: an update() makes at most one state transition, and the only
\* transitions are patrol->chase, chase->patrol, chase->attack and
\* attack->chase: a tick that starts in patrol with the player inside
\* attackRange ends in chase, the next tick with the player still there ends
\* in attack, and no tick leads from attack to patrol or from patrol to attack.
C25_OneTransitionPerTick ==
  aiObs.ran =>
     /\ <<aiObs.prev, SoloState>> \in
          {<<"patrol", "patrol">>, <<"patrol", "chase">>, <<"chase", "chase">>,
           <<"chase", "patrol">>, <<"chase", "attack">>, <<"attack", "attack">>,
           <<"attack", "chase">>}
     /\ Closer(SoloMyPos, aiWorld.playerPos, SoloAttackRange) =>
          /\ aiObs.prev = "patrol" => SoloState = "chase"
          /\ aiObs.prev = "chase" => SoloState = "attack"

\* C25 reached: a tick that started in patrol with the player already inside
\* attackRange
C25_Witness ==
  /\ aiObs.ran /\ aiObs.prev = "patrol" /\ SoloState = "chase"
  /\ Closer(SoloMyPos, aiWorld.playerPos, SoloAttackRange)

-----------------------------------------------------------------------------
\* Claims about the enemy hero's controller (checked under SpecHero)

\* C7 as stated: every update() on a living vehicle calls setMoveInput at least
\* once, in every state and also when a state handler falls back to another
\* state.
C7_Original == heroObs.ran => heroObs.moveWrites >= 1

\* C12 (as amended): the hero controller re-evaluates its state only in ticks
\* in which the decision timer has reached decisionInterval, and outside those
\* ticks update() changes the state in two cases only, both to lane: doFight
\* finds its target null or dead, or doRetreat, inside the base radius, finds
\* the health above 0.7 x maxHealth.
C12_StateChangesOnDecisionOrFallback ==
  [][ heroObs'.ran =>
        /\ heroObs'.decided => \E delta \in HeroDeltas : hero.decisionTimer + delta >= DecisionInterval
        /\ (~heroObs'.decided /\ hero'.state # hero.state) =>
             /\ hero'.state = "lane"
             /\ \/ hero.state = "fight" /\ (hero.attackTarget = "none" \/ ~heroWorld.playerAlive)
                \/ /\ hero.state = "retreat" /\ Closer(heroWorld.myPos, RedBasePos, 20)
                   /\ heroWorld'.health * 10 > HeroMaxHealth * 7 ]_vars

\* C12 reached: a tick between two decisions in which doRetreat sent the hero
\* back to its lane
C12_Witness ==
  /\ heroObs.ran /\ ~heroObs.decided /\ heroObs.prev = "retreat" /\ hero.state = "lane"

\* C12 as stated: the state changes only in ticks in which the decision timer
\* has reached decisionInterval; in all other ticks update() leaves it unchanged.
C12_Original ==
  [][ heroObs'.ran =>
        /\ heroObs'.decided => \E delta \in HeroDeltas : hero.decisionTimer + delta >= DecisionInterval
        /\ ~heroObs'.decided => hero'.state = hero.state ]_vars

\* C13: at every decision tick makeDecision selects retreat if the health
\* fraction is below 0.25; else fight, with attackTarget = player, if the player
\* is alive and closer than detectRange; else contest if the hero is within 60
\* of the map centre and the health fraction is above 0.5; else lane -- whatever
\* the state before the decision.
C13_DecisionPriority ==
  [][ (heroObs'.ran /\ heroObs'.decided) =>
        LET w == heroWorld
        IN IF w.health * 4 < HeroMaxHealth
           THEN heroObs'.decision.state = "retreat"
           ELSE IF w.playerAlive /\ Closer(w.myPos, w.playerPos, HeroDetectRange)
           THEN heroObs'.decision = [state |-> "fight", attackTarget |-> "player"]
           ELSE IF Closer(w.myPos, CenterPos, 60) /\ w.health * 2 > HeroMaxHealth
           THEN heroObs'.decision.state = "contest"
           ELSE heroObs'.decision.state = "lane" ]_vars

\* C13 reached: a decision taken in contest with the player near and the health
\* below a quarter has chosen retreat
C13_Witness ==
  /\ heroObs.ran /\ heroObs.decided /\ heroObs.prev = "contest"
  /\ heroObs.decision.state = "retreat"
  /\ heroWorld.playerAlive /\ Closer(heroWorld.myPos, heroWorld.playerPos, HeroDetectRange)

\* C14 as stated: a hero controller in retreat stays in retreat until the
\* vehicle's health is above 0.7 x maxHealth and only then returns to lane; it
\* does not leave retreat for lane, fight or contest while the health is at or
\* below that threshold.
C14_Original ==
  [][ (heroObs'.ran /\ hero.state = "retreat" /\ hero'.state # "retreat") =>
        /\ hero'.state = "lane"
        /\ heroWorld'.health * 10 > HeroMaxHealth * 7 ]_vars

\* C15: the hero controller casts the R ability only in an ability tick in
\* which its state is fight and the health fraction is strictly between 0.4 and
\* 0.8, and a tick is an ability tick (it levels up or casts abilities and
\* restarts abilityTimer) only when abilityInterval of delta has accumulated
\* since the previous one.
C15_UltimateOnlyInFightMidHealth ==
  [][ heroObs'.ran =>
        /\ "r" \in heroObs'.casts =>
              /\ hero'.state = "fight"
              /\ heroWorld.health * 10 > HeroMaxHealth * 4
              /\ heroWorld.health * 10 < HeroMaxHealth * 8
        /\ (heroObs'.casts # {} \/ heroObs'.levelUp # "none") => hero'.abilityTimer = 0
        /\ hero'.abilityTimer = 0 =>
              \E delta \in HeroDeltas : hero.abilityTimer + delta >= AbilityInterval ]_vars

\* C15 reached: an ability tick in fight at 65 % health has cast R
C15_Witness ==
  /\ heroObs.ran /\ "r" \in heroObs.casts /\ hero.state = "fight"
  /\ heroWorld.health * 20 = HeroMaxHealth * 13

\* C18 as stated (checked under SpecChase): in every tick in which the hero controller is in fight with a
\* living target beyond attackRange, the time since the last navigateTo call is
\* at most 1.0 s plus one tick, whatever state the fight was entered from.
C18_Original ==
  (/\ heroObs.ran /\ hero.state = "fight" /\ hero.attackTarget # "none"
   /\ heroWorld.playerAlive /\ Farther(heroWorld.myPos, heroWorld.playerPos, HeroAttackRange))
    => \A delta \in HeroDeltas : heroSinceNav <= 10 + delta

-----------------------------------------------------------------------------
\* Claims about the click controls (checked under SpecCtl)

\* C4 as stated: when MOBAControls.update has run on a hero that had an active
\* goal (a move target or an attack target) and has stayed within _stuckMinDist
\* of its last recorded position for more than _stuckThreshold of accumulated
\* tick time, the goal is abandoned: moveTarget and attackTarget are null,
\* currentPath is empty and the movement intent is (0, 0).
C4_Original ==
  (ctlObs.ran /\ ctlObs.goal /\ ctlObs.still > StuckThreshold) =>
     /\ ctl.moveTarget = NoTarget /\ ctl.attackTarget = "none"
     /\ ctl.currentPath = <<>>
     /\ ctlObs.move = <<0, 0>>

\* C5 as stated: in every reachable state the waypoint index is smaller than
\* max(1, length of the current path), for MOBAHeroAI and for MOBAControls.
C5_Original ==
  /\ hero.navPathIndex < Max(1, Len(hero.navPath))
  /\ ctl.currentWaypointIndex < Max(1, Len(ctl.currentPath))

\* C21 as stated: the stop key clears the path state together with the goal:
\* after the handler moveTarget and attackTarget are null, currentPath is
\* empty, currentWaypointIndex is 0 and the hero's movement intent is (0, 0).
C21_Original ==
  [][ Ctl_keyS =>
        /\ ctl'.moveTarget = NoTarget /\ ctl'.attackTarget = "none"
        /\ ctl'.currentPath = <<>> /\ ctl'.currentWaypointIndex = 0
        /\ ctlObs'.moveWrites >= 1 /\ ctlObs'.move = <<0, 0>> ]_vars

\* Claims about the click controls with the history of the commands (checked
\* under SpecTrack)

\* C24: while the controller chases a living attack target beyond attack
\* range, computePath is called again at least once per 1.0 s of tick time:
\* the time spent chasing since the last computePath call never exceeds 1.0 s
\* plus one tick, also for a controller fresh from its constructor.
C24_Original ==
  (ctlObs.ran /\ MOBAControls_chases(ctl, ctlWorld)) =>
     ctlTrack.pathAge <= AttackPathPeriod + 10

\* C28: whenever moveTarget is non-null and currentPath is non-empty,
\* currentPath was computed for that moveTarget: the target of the last
\* computePath call is the move target.
C28_Original ==
  (ctl.moveTarget # NoTarget /\ Len(ctl.currentPath) > 0) =>
     ctlTrack.pathFor = ctl.moveTarget

\* C29: stuck detection never abandons a move goal earlier than
\* _stuckThreshold of tick time after that goal was issued.
C29_Original ==
  ctlTrack.abandoned => ctlTrack.goalAge >= StuckThreshold

-----------------------------------------------------------------------------
\* Claims about the path followers (checked under SpecFollow)

\* A tick in which the hero AI / the controls follow the path they already had
HeroFollowsSamePath ==
  /\ fwOp' = "tick" /\ Len(fwHero.navPath) > 0
  /\ fwHero.navPathIndex < Len(fwHero.navPath)
CtlFollowsSamePath ==
  /\ fwOp' = "tick" /\ Len(fwCtl.currentPath) > 0
  /\ fwCtl.currentWaypointIndex < Len(fwCtl.currentPath)

\* C6 (as amended): while a controller follows one and the same non-empty
\* path, its waypoint index never decreases from one tick to the next; it rises
\* by at most one per tick, and only in a tick in which the agent is within the
\* arrival distance (5) of the waypoint the index pointed at.  MOBAHeroAI keeps
\* its path and never moves the index past the final one (which it reaches on
\* arriving at the waypoint before the last); MOBAControls keeps its path until
\* the index moves past the final one, and then empties it.
C6_IndexAdvancesOnArrival ==
  [][ /\ HeroFollowsSamePath =>
           /\ fwHero'.navPath = fwHero.navPath
           /\ fwHero'.navPathIndex >= fwHero.navPathIndex
           /\ fwHero'.navPathIndex <= fwHero.navPathIndex + 1
           /\ fwHero'.navPathIndex <= Len(fwHero.navPath) - 1
           /\ fwHero'.navPathIndex > fwHero.navPathIndex =>
                Closer(fwPos', fwHero.navPath[fwHero.navPathIndex + 1], WaypointArrivalDist)
      /\ CtlFollowsSamePath =>
           /\ fwCtl'.currentWaypointIndex >= fwCtl.currentWaypointIndex
           /\ fwCtl'.currentWaypointIndex <= fwCtl.currentWaypointIndex + 1
           /\ fwCtl'.currentWaypointIndex > fwCtl.currentWaypointIndex =>
                Closer(fwPos', fwCtl.currentPath[fwCtl.currentWaypointIndex + 1],
                       WaypointArrivalDist)
           /\ IF fwCtl'.currentWaypointIndex < Len(fwCtl.currentPath)
              THEN fwCtl'.currentPath = fwCtl.currentPath
              ELSE fwCtl'.currentPath = <<>> ]_vars

\* C6 reached: a tick on a three-point path has moved both indices from the
\* corner waypoint to the final one
C6_Witness ==
  /\ fwOp = "tick"
  /\ Len(fwHero.navPath) = 3 /\ fwHero.navPathIndex = 2
  /\ Len(fwCtl.currentPath) = 3 /\ fwCtl.currentWaypointIndex = 2
  /\ Closer(fwPos, fwHero.navPath[2], WaypointArrivalDist)

\* C6 as stated: following one and the same non-empty path the index never
\* decreases, and it is at the final index once the agent is within the arrival
\* distance of the last waypoint.
C6_Original ==
  [][ /\ HeroFollowsSamePath =>
           /\ fwHero'.navPathIndex >= fwHero.navPathIndex
           /\ Closer(fwPos', fwHero.navPath[Len(fwHero.navPath)], WaypointArrivalDist) =>
                fwHero'.navPathIndex = Len(fwHero.navPath) - 1
      /\ CtlFollowsSamePath =>
           /\ fwCtl'.currentWaypointIndex >= fwCtl.currentWaypointIndex
           /\ Closer(fwPos', fwCtl.currentPath[Len(fwCtl.currentPath)], WaypointArrivalDist) =>
                fwCtl'.currentWaypointIndex >= Len(fwCtl.currentPath) - 1 ]_vars

\* C19 (as amended): right after a new path is computed the waypoint index of
\* either controller is 1 when the path has more than one waypoint and its
\* first waypoint is within the arrival distance (5) of the agent, and 0
\* otherwise: only the first waypoint is ever skipped, and a second waypoint
\* within arrival distance is still the one the index points to.
C19_OnlyFirstWaypointSkipped ==
  fwOp = "navigate" =>
     /\ fwCtl.currentPath = fwHero.navPath
     /\ \A i \in {fwHero.navPathIndex, fwCtl.currentWaypointIndex} :
          /\ i <= 1
          /\ i = 1 <=> (Len(fwHero.navPath) > 1 /\ Closer(fwPos, fwHero.navPath[1], 5))

\* C19 reached: a path of three waypoints was computed with the agent within
\* arrival distance of the first two, and both indices point to the second
C19_Witness ==
  /\ fwOp = "navigate" /\ Len(fwHero.navPath) = 3 /\ fwCtl.currentPath = fwHero.navPath
  /\ Closer(fwPos, fwHero.navPath[1], 5) /\ Closer(fwPos, fwHero.navPath[2], 5)
  /\ fwHero.navPathIndex = 1 /\ fwCtl.currentWaypointIndex = 1

\* C19 as stated: right after a new path is computed the waypoint index points
\* to the first waypoint that is not within the arrival distance of the agent,
\* or to the last waypoint if all are within it.
C19_Original ==
  fwOp = "navigate" =>
     /\ fwHero.navPathIndex = MOBAHeroAI_startIndex_SkipAll(fwHero.navPath, fwPos)
     /\ fwCtl.currentWaypointIndex = MOBAHeroAI_startIndex_SkipAll(fwCtl.currentPath, fwPos)

-----------------------------------------------------------------------------
\* Claims about the squad controller's separation pass (checked under
\* SpecSquad)

\* The alive pairs closer than SeparationDist after movement, before the pass
SquadClosePairs ==
  {p \in {<<1, 2>>, <<1, 3>>, <<2, 3>>} :
     /\ sqAlive[p[1]] /\ sqAlive[p[2]]
     /\ Abs(sqMoved[p[2]] - sqMoved[p[1]]) < SeparationDist}

\* C20 (as amended): every pair of alive followers that the separation pass
\* finds closer than the minimum separation distance is nudged by equal and
\* opposite amounts, and the distance of the pair right after its nudge is
\* strictly larger than right before it;
\* followers that are dead or in no such pair are not moved.  (The pass
\* measures a pair when it reaches it, after the nudges of the pairs before.)
C20_NudgeSeparatesPair ==
  /\ \A n \in DOMAIN sqLog :
       LET e == sqLog[n]
       IN /\ sqAlive[e.i] /\ sqAlive[e.j]
          /\ Abs(e.before[e.j] - e.before[e.i]) < SeparationDist
          /\ e.after[e.i] - e.before[e.i] = -(e.after[e.j] - e.before[e.j])
          /\ \A m \in 1..3 : m \notin {e.i, e.j} => e.after[m] = e.before[m]
          /\ Abs(e.after[e.j] - e.after[e.i]) > Abs(e.before[e.j] - e.before[e.i])
  /\ \A m \in 1..3 :
       (\A n \in DOMAIN sqLog : m \notin {sqLog[n].i, sqLog[n].j}) => sqPos[m] = sqMoved[m]

\* C20 reached: a pass has nudged all three pairs of three alive followers
C20_Witness == Len(sqLog) = 3 /\ sqAlive = <<TRUE, TRUE, TRUE>> /\ sqPos # sqMoved

\* C20 as stated: every pair of alive followers whose distance before the pass
\* is below the minimum separation distance is farther apart after the pass
\* than before it.
C20_Original ==
  \A p \in SquadClosePairs :
     Abs(sqPos[p[2]] - sqPos[p[1]]) > Abs(sqMoved[p[2]] - sqMoved[p[1]])

-----------------------------------------------------------------------------
\* Claims about the control point (checked under SpecPoint)

\* C23 as stated: in every tick in which living units of both teams are inside
\* the capture radius, the capture progress is left unchanged, and so are
\* captureTeam and controllingTeam.
C23_Original ==
  (cpObs.ran /\ cpObs.blueInRange > 0 /\ cpObs.redInRange > 0) =>
     /\ cp.captureProgress = cpObs.prev.captureProgress
     /\ cp.captureTeam = cpObs.prev.captureTeam
     /\ cp.controllingTeam = cpObs.prev.controllingTeam

\* C27: in every state reachable by update(), for any sequence of team
\* presences, captureProgress is within [0, 1] and controllingTeam is either
\* null or equal to captureTeam.
C27_ProgressBoundedControlIsCapture ==
  /\ cp.captureProgress >= 0 /\ cp.captureProgress <= FullProgress
  /\ cp.controllingTeam \in {"null", cp.captureTeam}

\* C27 reached: a team that held the point has just lost it to the other team
\* alone on the point, which is now the capturing team of a neutral point
C27_Witness ==
  /\ cpObs.ran /\ cpObs.prev.controllingTeam = "blue" /\ cp.controllingTeam = "null"
  /\ cp.captureTeam = "red" /\ cp.captureProgress = 0

-----------------------------------------------------------------------------
\* Claims about the minion waves (checked under SpecWave)

\* The accumulated update time at which wave n is due as C22 states it
WaveDueAt(n) == FirstWaveDelay + (n - 1) * WaveInterval

\* C22 as stated: update() spawns the first wave once firstWaveDelay (15 s) of
\* update time has accumulated since construction, and each later wave
\* waveInterval (30 s) of accumulated time after the previous one: with loaded
\* assets, a tick spawns wave n exactly when it is the first tick to reach
\* 15 s + (n - 1) * 30 s.
C22_Original ==
  (mwObs.ran /\ mw.assetsLoaded) =>
     /\ mwObs.spawned =>
          /\ mwElapsed >= WaveDueAt(mw.waveCount)
          /\ \E delta \in WaveDeltas : mwElapsed - delta < WaveDueAt(mw.waveCount)
     /\ mwElapsed >= FirstWaveDelay => mw.waveCount >= 1

\* C30 as stated: with the damage-target lists wired as the game does, the
\* damageTargets list assigned to a minion at spawn never contains a unit of
\* the minion's own team, and a minion never engages its own hero or towers.
C30_Original ==
  /\ \A list \in {mw.blueMinions, mw.redMinions} : \A i \in DOMAIN list :
       \A k \in DOMAIN list[i].damageTargets :
          TeamOf(list[i].damageTargets[k]) # list[i].team
  /\ \A e \in mwObs.engaged : e[2] # "none" => TeamOf(e[2]) # e[1]

====
